---- MODULE Spec2Model ----
(***************************************************************************)
(* A model of ghr, the interactive GitHub pull-request reviewer:           *)
(*   - CommandParser   (src/src/modules/command-parser.ts)                 *)
(*   - Commands, GeminiClient, SessionManager, Application                 *)
(*     (src/src/modules/commands.ts)                                       *)
(* Command lines, history entries, file names and comment bodies are       *)
(* strings; the text operations of the code (trim, split, join, parseInt,  *)
(* the two history regular expressions) are computed character by          *)
(* character.  An optional value of the code (prNumber?: number) is the    *)
(* empty tuple when undefined and a one-element tuple when set.            *)
(***************************************************************************)
EXTENDS Integers, Sequences, FiniteSets, TLC

(***************************************************************************)
(* Bounds of the model.                                                    *)
(***************************************************************************)
\* SessionManager's constructor argument (100 in Application, line 986).
maxHistorySize == 2
\* 'line' events delivered by readline over all runs of the application.
MaxLines == 3
\* Times the application is started (new Application()).
MaxRuns == 2
\* SessionManager-level specification: calls of addToHistory over all runs.
MaxCalls == 3

(***************************************************************************)
(* Text: the JavaScript string operations the code uses.                   *)
(***************************************************************************)
Min(a, b) == IF a < b THEN a ELSE b

CharAt(s, i) == SubSeq(s, i, i)

\* The characters \s matches and trim() strips, among those the inputs use.
IsSpace(c) == c \in {" ", "\t", "\n", "\r"}

IsDigit(c) == c \in {"0", "1", "2", "3", "4", "5", "6", "7", "8", "9"}

DigitVal(c) == CHOOSE d \in 0..9 : CharAt("0123456789", d + 1) = c

UpperCase == "ABCDEFGHIJKLMNOPQRSTUVWXYZ"
LowerCase == "abcdefghijklmnopqrstuvwxyz"

LowerChar(c) ==
    IF \E i \in 1..26 : CharAt(UpperCase, i) = c
    THEN CharAt(LowerCase, CHOOSE i \in 1..26 : CharAt(UpperCase, i) = c)
    ELSE c

RECURSIVE toLowerCase(_)
toLowerCase(s) ==
    IF s = "" THEN ""
    ELSE LowerChar(CharAt(s, 1)) \o toLowerCase(SubSeq(s, 2, Len(s)))

RECURSIVE trimStart(_)
trimStart(s) ==
    IF s # "" /\ IsSpace(CharAt(s, 1)) THEN trimStart(SubSeq(s, 2, Len(s))) ELSE s

RECURSIVE trimEnd(_)
trimEnd(s) ==
    IF s # "" /\ IsSpace(CharAt(s, Len(s))) THEN trimEnd(SubSeq(s, 1, Len(s) - 1)) ELSE s

\* String.prototype.trim
trim(s) == trimEnd(trimStart(s))

\* s.split(/\s+/): the fields between the maximal runs of white space; a
\* leading or trailing run leaves an empty first or last field.
RECURSIVE splitWsFrom(_, _, _)
splitWsFrom(s, i, cur) ==
    IF i > Len(s) THEN <<cur>>
    ELSE IF IsSpace(CharAt(s, i))
         THEN IF i < Len(s) /\ IsSpace(CharAt(s, i + 1))
              THEN splitWsFrom(s, i + 1, cur)
              ELSE <<cur>> \o splitWsFrom(s, i + 1, "")
         ELSE splitWsFrom(s, i + 1, cur \o CharAt(s, i))

splitWs(s) == splitWsFrom(s, 1, "")

\* s.split(/\s+/, limit): split, then keep the first limit fields.
splitWsLimit(s, limit) ==
    LET all == splitWs(s) IN SubSeq(all, 1, Min(limit, Len(all)))

\* s.split('\n')
RECURSIVE splitLinesFrom(_, _, _)
splitLinesFrom(s, i, cur) ==
    IF i > Len(s) THEN <<cur>>
    ELSE IF CharAt(s, i) = "\n"
         THEN <<cur>> \o splitLinesFrom(s, i + 1, "")
         ELSE splitLinesFrom(s, i + 1, cur \o CharAt(s, i))

splitLines(s) == splitLinesFrom(s, 1, "")

\* Array.prototype.join
RECURSIVE join(_, _)
join(parts, sep) ==
    IF parts = <<>> THEN ""
    ELSE IF Len(parts) = 1 THEN parts[1]
    ELSE parts[1] \o sep \o join(Tail(parts), sep)

\* NaN, and undefined: the empty tuple; a value v that is set: <<v>>.
NaN == <<>>
undefined == <<>>
isNaN(v) == v = NaN

RECURSIVE DigitsValue(_, _, _)
DigitsValue(s, i, acc) ==
    IF i <= Len(s) /\ IsDigit(CharAt(s, i))
    THEN DigitsValue(s, i + 1, 10 * acc + DigitVal(CharAt(s, i)))
    ELSE acc

\* parseInt(s, 10): leading white space, an optional sign, then the longest
\* run of digits; NaN when there is no digit.
parseInt(s) ==
    LET t    == trimStart(s)
        neg  == t # "" /\ CharAt(t, 1) = "-"
        sgn  == t # "" /\ CharAt(t, 1) \in {"-", "+"}
        body == IF sgn THEN SubSeq(t, 2, Len(t)) ELSE t
    IN  IF body = "" \/ ~IsDigit(CharAt(body, 1)) THEN NaN
        ELSE <<(IF neg THEN -1 ELSE 1) * DigitsValue(body, 1, 0)>>

AllDigits(s) == s # "" /\ \A i \in 1..Len(s) : IsDigit(CharAt(s, i))

\* trimmed.match(/^!(\d+)$/): the digits, or <<>> when there is no match.
historyMatch(s) ==
    IF Len(s) >= 2 /\ CharAt(s, 1) = "!" /\ AllDigits(SubSeq(s, 2, Len(s)))
    THEN <<SubSeq(s, 2, Len(s))>>
    ELSE <<>>

\* trimmed.match(/^(h|history|!!?|\!\d+)$/)
isHistoryLookup(s) ==
    \/ s \in {"h", "history", "!", "!!"}
    \/ historyMatch(s) # <<>>

(***************************************************************************)
(* The state of the program.                                               *)
(***************************************************************************)
VARIABLES
    phase,          \* "running", or "exited" after process.exit
    state,          \* SessionManager.state
    commandHistory, \* SessionManager.commandHistory
    prFiles,        \* Application.context.prFiles
    inflight,       \* the 'line' handlers waiting for GitHub, oldest first
    microtasks,     \* the 'line' handlers waiting in the microtask queue for
                    \* their awaits to pass, in the order they began to wait
    sessionFile,    \* .ghr_session: <<>> when absent, else <<content>>
    historyFile,    \* .ghr_command_history: <<>> when absent, else <<content>>
    nLines,         \* 'line' events so far
    nRuns,          \* starts of the application so far
    nCalls,         \* SessionManager-level specification: calls so far
    parser,         \* CommandParser: its commands and aliases maps
    latestLoad,     \* of the pr lines of this run whose load has succeeded, the
                    \* one entered last: <<>>, or <<[n, prNumber, files]>>
    gemini,         \* GeminiClient: its history, and its requests in flight
    enteredAt,      \* for each history entry, the number of the 'line' event
                    \* that entered it (0: read from the history file)
    ev              \* the step just taken

vars == <<phase, state, commandHistory, prFiles, inflight, microtasks, sessionFile,
          historyFile, nLines, nRuns, nCalls, parser, latestLoad, gemini,
          enteredAt, ev>>

(***************************************************************************)
(* CommandParser.                                                          *)
(***************************************************************************)
\* The names Application.setupCommands registers.
commands ==
    {"q", "quit", "?", "help", "h", "history", "lpr", "pr", "lf", "fn", "f",
     "+", "-", "dd", "ddiw", "do", "dn", "ca", "rs", "ajim"}

\* CommandParser.aliases: setupCommands registers no alias.
aliases == [a \in {} |-> ""]

\* new CommandParser(): both maps empty.
NewParser == [commands |-> [n \in {} |-> ""], aliases |-> [a \in {} |-> ""]]

\* Map.set(key, value)
set(map, key, value) ==
    [k \in DOMAIN map \cup {key} |-> IF k = key THEN value ELSE map[k]]

\* register and registerAlias; a handler is known by an identifier.
register(p, name, handler) ==
    [p EXCEPT !.commands = set(p.commands, toLowerCase(name), handler)]

registerAlias(p, alias, command) ==
    [p EXCEPT !.aliases = set(p.aliases, toLowerCase(alias), toLowerCase(command))]

\* The parser after Application.setupCommands: each name with the closure
\* registered under it, which is identified by that name.
setupCommands == [commands |-> [n \in commands |-> n], aliases |-> aliases]

\* What execute does with a line: the handlers it invokes, in order
\* (calls; call is the first of them: the name the handler is registered
\* under, the handler, and the argument string it is given) and the value
\* it returns when no handler it awaits fails.
NoCall == [called |-> FALSE, cmd |-> "", handler |-> "", args |-> ""]

Invocation(cmdName, args) ==
    [called |-> TRUE, cmd |-> cmdName, handler |-> parser.commands[cmdName],
     args |-> args]

Executed(calls, result) ==
    [calls |-> calls, call |-> IF calls = <<>> THEN NoCall ELSE calls[1],
     result |-> result]

\* execute without the return inside the branch for + and -.
execute_fallThrough(input) ==
    LET trimmed == trim(input)
        parts   == splitWs(trimmed)
        first   == toLowerCase(parts[1])
        args    == join(Tail(parts), " ")
        cmdName == IF first \in DOMAIN parser.aliases THEN parser.aliases[first]
                   ELSE first
        special == IF cmdName \in {"+", "-"} /\ cmdName \in DOMAIN parser.commands
                   THEN <<Invocation(cmdName, cmdName)>> ELSE <<>>
        general == IF cmdName \in DOMAIN parser.commands
                   THEN <<Invocation(cmdName, args)>> ELSE <<>>
    IN  IF trimmed = "" THEN Executed(<<>>, TRUE)
        ELSE Executed(special \o general, general # <<>>)

execute(input) ==
    LET trimmed == trim(input)
        parts   == splitWs(trimmed)
        first   == toLowerCase(parts[1])
        args    == join(Tail(parts), " ")
        cmdName == IF first \in DOMAIN parser.aliases THEN parser.aliases[first]
                   ELSE first
        \* the branch for + and -, which returns when it finds a handler
        special == IF cmdName \in {"+", "-"} /\ cmdName \in DOMAIN parser.commands
                   THEN <<Invocation(cmdName, cmdName)>> ELSE <<>>
        \* the general branch, reached when the first did not return
        general == IF special = <<>> /\ cmdName \in DOMAIN parser.commands
                   THEN <<Invocation(cmdName, args)>> ELSE <<>>
    IN  IF trimmed = "" THEN Executed(<<>>, TRUE)
        ELSE Executed(special \o general, special \o general # <<>>)

\* processHistoryExpansion with !n read as a 0-based index (the "- 1" left
\* out).
processHistoryExpansion_zeroBased(input, history) ==
    LET trimmed == trim(input)
        m       == historyMatch(trimmed)
        index   == parseInt(m[1])[1]
    IN  IF trimmed = "!!"
        THEN IF Len(history) = 0 THEN <<>> ELSE <<history[Len(history)]>>
        ELSE IF m # <<>>
        THEN IF index >= 0 /\ index < Len(history) THEN <<history[index + 1]>>
             ELSE <<>>
        ELSE <<input>>

\* processHistoryExpansion with an index past the end clamped to the last
\* entry instead of refused.
processHistoryExpansion_clamped(input, history) ==
    LET trimmed == trim(input)
        m       == historyMatch(trimmed)
        index   == Min(parseInt(m[1])[1], Len(history)) - 1
    IN  IF trimmed = "!!"
        THEN IF Len(history) = 0 THEN <<>> ELSE <<history[Len(history)]>>
        ELSE IF m # <<>>
        THEN IF index >= 0 /\ index < Len(history) THEN <<history[index + 1]>>
             ELSE <<>>
        ELSE <<input>>

\* processHistoryExpansion: <<>> is null, <<l>> the line to execute.
processHistoryExpansion(input, history) ==
    LET trimmed == trim(input)
        m       == historyMatch(trimmed)
        index   == parseInt(m[1])[1] - 1
    IN  IF trimmed = "!!"
        THEN IF Len(history) = 0 THEN <<>> ELSE <<history[Len(history)]>>
        ELSE IF m # <<>>
        THEN IF index >= 0 /\ index < Len(history) THEN <<history[index + 1]>>
             ELSE <<>>
        ELSE <<input>>

(***************************************************************************)
(* SessionManager.                                                         *)
(***************************************************************************)
EmptyFiles == [f \in {} |-> <<>>]

\* The state the constructor sets before loadSession.
InitialState ==
    [prNumber |-> undefined, currentFileIndex |-> undefined,
     currentFileName |-> undefined,
     comments |-> [global |-> <<>>, files |-> EmptyFiles]]

\* this.state = { ...this.state, ...updates }
updateState(st, updates) == updates @@ st

\* JSON.stringify(this.state): the object's keys whose value is not
\* undefined, each with its value.
JSONstringify(st) ==
    LET keys == {k \in DOMAIN st : k = "comments" \/ st[k] # undefined}
    IN  [k \in keys |-> IF k = "comments" THEN st[k] ELSE st[k][1]]

\* The object JSON.parse returns, as the partial state it is spread from.
JSONparse(doc) ==
    [k \in DOMAIN doc |-> IF k = "comments" THEN doc[k] ELSE <<doc[k]>>]

\* saveSession: the content written to .ghr_session.
saveSession(st) == <<JSONstringify(st)>>

\* loadSession with the spread reversed ({ ...loaded, ...this.state }): the
\* constructor's empty comments win over the loaded ones.
loadSession_reversed(st, file) ==
    IF file = <<>> THEN st
    ELSE updateState(updateState(st, JSONparse(file[1])), [comments |-> st.comments])

\* loadSession: file is <<>> when .ghr_session does not exist.
loadSession(st, file) ==
    IF file = <<>> THEN st ELSE updateState(st, JSONparse(file[1]))

\* Array.prototype.slice(-n); slice(-0) is slice(0), the whole array.
sliceLast(seq, n) ==
    IF n = 0 \/ Len(seq) <= n THEN seq
    ELSE SubSeq(seq, Len(seq) - n + 1, Len(seq))

\* saveHistory: the content written to .ghr_command_history.
saveHistory(history) ==
    <<join(sliceLast(history, maxHistorySize), "\n") \o "\n">>

\* loadHistory without the filter of blank lines.
loadHistory_unfiltered(history, file) ==
    IF file = <<>> THEN history
    ELSE sliceLast(splitLines(file[1]), maxHistorySize)

\* loadHistory: file is <<>> when .ghr_command_history does not exist.
loadHistory(history, file) ==
    IF file = <<>> THEN history
    ELSE sliceLast(SelectSeq(splitLines(file[1]), LAMBDA l : trim(l) # ""),
                   maxHistorySize)

\* addToHistory without the shift of the oldest entry.
addToHistory_unbounded(history, command) ==
    IF trim(command) # "" THEN Append(history, command) ELSE history

addToHistory(history, command) ==
    IF trim(command) # ""
    THEN LET pushed == Append(history, command)
         IN  IF Len(pushed) > maxHistorySize THEN Tail(pushed) ELSE pushed
    ELSE history

\* JavaScript's !v for an optional number and for an optional string.
FalsyNum(v) == v = undefined \/ v[1] = 0
FalsyStr(v) == v = undefined \/ v[1] = ""

getUnpushedCommentCount(st) ==
    LET local(cs) == Len(SelectSeq(cs, LAMBDA c : c.status = "local"))
        RECURSIVE Sum(_)
        Sum(S) == IF S = {} THEN 0
                  ELSE LET f == CHOOSE f \in S : TRUE
                       IN  local(st.comments.files[f]) + Sum(S \ {f})
    IN  local(st.comments.global) + Sum(DOMAIN st.comments.files)

(***************************************************************************)
(* RegExp: new RegExp(args, 'i') and regex.test(f), as selectFileByName    *)
(* uses them.  The pattern is parsed by the grammar of ECMAScript regular  *)
(* expressions without the u flag (with the web-compatibility extensions   *)
(* node applies: a lone ], { or } is a literal, any escaped character that *)
(* is no escape stands for itself) into a tree, and the tree is matched    *)
(* against the text.  Outside the model: back-references and named groups, *)
(* the numeric and control escapes (\1, \x41, \cA), and texts with        *)
(* characters other than printable ASCII, tab, line feed, form feed and    *)
(* carriage return (a class may name U+0000, U+0008 and U+000B).           *)
(***************************************************************************)
\* The printable ASCII characters in the order of their codes: 32 to 95,
\* and 97 to 126 (96, the grave accent, has no place in a string here).
AsciiTo95 ==
    " !\"#$%&'()*+,-./0123456789:;<=>?@ABCDEFGHIJKLMNOPQRSTUVWXYZ[\\]^_"
AsciiFrom97 == "abcdefghijklmnopqrstuvwxyz{|}~"

\* String.prototype.charCodeAt(0)
charCodeAt(c) ==
    IF c = "\t" THEN 9
    ELSE IF c = "\n" THEN 10
    ELSE IF c = "\f" THEN 12
    ELSE IF c = "\r" THEN 13
    ELSE IF \E i \in 1..Len(AsciiTo95) : CharAt(AsciiTo95, i) = c
    THEN 31 + (CHOOSE i \in 1..Len(AsciiTo95) : CharAt(AsciiTo95, i) = c)
    ELSE 96 + (CHOOSE i \in 1..Len(AsciiFrom97) : CharAt(AsciiFrom97, i) = c)

IsLetter(c) == \E i \in 1..26 : c \in {CharAt(UpperCase, i), CharAt(LowerCase, i)}

UpperChar(c) ==
    IF \E i \in 1..26 : CharAt(LowerCase, i) = c
    THEN CharAt(UpperCase, CHOOSE i \in 1..26 : CharAt(LowerCase, i) = c)
    ELSE c

\* \w, \d and \s, and . (every character but the line terminators).
IsWordChar(c) == IsLetter(c) \/ IsDigit(c) \/ c = "_"
IsWhiteSpace(c) == c \in {" ", "\t", "\n", "\f", "\r"}
IsLineTerminator(c) == c \in {"\n", "\r"}

\* The nodes of a parsed pattern.
Empty == [type |-> "empty"]
Char(c) == [type |-> "char", c |-> c]
AnyChar == [type |-> "any"]
\* a character the texts of the model never contain (\v, \0, [\b])
NoChar == [type |-> "class", negated |-> FALSE, items |-> <<>>]
ClassEscape(name) ==
    [type |-> "class", negated |-> FALSE,
     items |-> <<[kind |-> "escape", name |-> name]>>]
CharacterClass(negated, items) ==
    [type |-> "class", negated |-> negated, items |-> items]
Alternative(terms) == [type |-> "alternative", terms |-> terms]
Disjunction(left, right) == [type |-> "disjunction", left |-> left, right |-> right]
Quantified(atom, min, max) ==
    [type |-> "quantified", atom |-> atom, min |-> min, max |-> max]
LineStart == [type |-> "^"]
LineEnd == [type |-> "$"]
WordBoundary(negated) == [type |-> "\\b", negated |-> negated]
Lookaround(behind, negated, body) ==
    [type |-> "lookaround", behind |-> behind, negated |-> negated, body |-> body]

\* The result of parsing from a position: the node and the position after
\* it, or a SyntaxError.
Parsed(node, next) == [ok |-> TRUE, node |-> node, next |-> next]
SyntaxError == [ok |-> FALSE, node |-> Empty, next |-> 0]

\* The upper bound of *, + and {n,}: a number that no count of repetitions
\* equals.
Infinity == 0 - 1

\* The digits of p from position i on.
RECURSIVE DecimalDigits(_, _)
DecimalDigits(p, i) ==
    IF i <= Len(p) /\ IsDigit(CharAt(p, i))
    THEN CharAt(p, i) \o DecimalDigits(p, i + 1)
    ELSE ""

\* {n}, {n,} or {n,m} at position i of p: its bounds and the position after
\* it; ok is FALSE when the text at i is no such quantifier.
bracedQuantifier(p, i) ==
    LET none == [ok |-> FALSE, min |-> 0, max |-> 0, next |-> i]
        \* lo: the digits after the brace; hi: the digits after the comma
        bounds(lo, hi) ==
            LET j == i + 1 + Len(lo)
                k == j + 1 + Len(hi)
            IN  IF i > Len(p) \/ CharAt(p, i) # "{" \/ lo = "" \/ j > Len(p) THEN none
                ELSE IF CharAt(p, j) = "}"
                THEN [ok |-> TRUE, min |-> DigitsValue(lo, 1, 0),
                      max |-> DigitsValue(lo, 1, 0), next |-> j + 1]
                ELSE IF CharAt(p, j) # "," \/ k > Len(p) \/ CharAt(p, k) # "}" THEN none
                ELSE [ok |-> TRUE, min |-> DigitsValue(lo, 1, 0),
                      max |-> IF hi = "" THEN Infinity ELSE DigitsValue(hi, 1, 0),
                      next |-> k + 1]
        upper(lo) == bounds(lo, DecimalDigits(p, i + 2 + Len(lo)))
    IN  upper(DecimalDigits(p, i + 1))

\* The quantifier at position i of p, if there is one, applied to the atom
\* parsed before it; a ? after a quantifier makes it lazy, which changes
\* which match is found and not whether there is one.
parseQuantifier(p, i, atom) ==
    LET c == IF i <= Len(p) THEN CharAt(p, i) ELSE ""
        apply(q) ==
            IF ~q.ok THEN Parsed(atom, i)
            ELSE IF q.max # Infinity /\ q.max < q.min THEN SyntaxError
            ELSE Parsed(Quantified(atom, q.min, q.max),
                        IF q.next <= Len(p) /\ CharAt(p, q.next) = "?"
                        THEN q.next + 1 ELSE q.next)
    IN  apply(IF c = "*" THEN [ok |-> TRUE, min |-> 0, max |-> Infinity, next |-> i + 1]
              ELSE IF c = "+" THEN [ok |-> TRUE, min |-> 1, max |-> Infinity, next |-> i + 1]
              ELSE IF c = "?" THEN [ok |-> TRUE, min |-> 0, max |-> 1, next |-> i + 1]
              ELSE bracedQuantifier(p, i))

\* The escape whose backslash is at position i - 1 and whose character c is
\* at position i, outside a character class.
parseAtomEscape(c, i) ==
    IF c \in {"d", "D", "w", "W", "s", "S"} THEN Parsed(ClassEscape(c), i + 1)
    ELSE IF c \in {"v", "0"} THEN Parsed(NoChar, i + 1)
    ELSE Parsed(Char(IF c = "t" THEN "\t" ELSE IF c = "n" THEN "\n"
                     ELSE IF c = "r" THEN "\r" ELSE IF c = "f" THEN "\f" ELSE c),
                i + 1)

\* One member of a character class from position i of p: a character,
\* given by its code, or a class escape, given by its letter.  In a class
\* \b is the backspace (U+0008), \v the vertical tab (U+000B) and \0 the
\* null character (U+0000).
parseClassAtom(p, i) ==
    LET c == IF i <= Len(p) THEN CharAt(p, i) ELSE ""
        e == CharAt(p, i + 1)
        char(code, next) == [ok |-> TRUE, kind |-> "char", c |-> "",
                             code |-> code, next |-> next]
        none == [ok |-> FALSE, kind |-> "", c |-> "", code |-> 0, next |-> 0]
    IN  IF c = "" THEN none
        ELSE IF c # "\\" THEN char(charCodeAt(c), i + 1)
        ELSE IF i + 1 > Len(p) THEN none
        ELSE IF e \in {"d", "D", "w", "W", "s", "S"}
        THEN [ok |-> TRUE, kind |-> "escape", c |-> e, code |-> 0, next |-> i + 2]
        ELSE char(IF e = "0" THEN 0 ELSE IF e = "b" THEN 8
                  ELSE IF e = "t" THEN 9 ELSE IF e = "n" THEN 10
                  ELSE IF e = "v" THEN 11 ELSE IF e = "f" THEN 12
                  ELSE IF e = "r" THEN 13 ELSE charCodeAt(e),
                  i + 2)

ClassItem(a) ==
    IF a.kind = "char" THEN <<[kind |-> "range", from |-> a.code, to |-> a.code]>>
    ELSE <<[kind |-> "escape", name |-> a.c]>>

\* The members of a character class from position i of p up to its ].
RECURSIVE parseClassRanges(_, _, _)
parseClassRanges(p, i, items) ==
    LET error == [ok |-> FALSE, items |-> <<>>, next |-> 0]
        \* a: the class atom at i; b: the class atom after the - behind a
        ranges(a, b) ==
            LET range == /\ a.next + 1 <= Len(p)
                         /\ CharAt(p, a.next) = "-"
                         /\ CharAt(p, a.next + 1) # "]"
                \* what the class gains, <<>> for a range out of order
                gain(from, to) ==
                    IF a.kind = "char" /\ b.kind = "char"
                    THEN IF from[1].from > to[1].to THEN <<>>
                         ELSE <<[kind |-> "range", from |-> from[1].from,
                                 to |-> to[1].to]>>
                    ELSE from \o <<[kind |-> "range", from |-> 45, to |-> 45]>> \o to
                next(gained) ==
                    IF a.kind = "char" /\ b.kind = "char" /\ gained = <<>> THEN error
                    ELSE parseClassRanges(p, IF range THEN b.next ELSE a.next,
                                          items \o gained)
            IN  IF ~a.ok THEN error
                ELSE IF range /\ ~b.ok THEN error
                ELSE next(IF range THEN gain(ClassItem(a), ClassItem(b))
                          ELSE ClassItem(a))
        second(a) == ranges(a, parseClassAtom(p, a.next + 1))
    IN  IF i > Len(p) THEN error
        ELSE IF CharAt(p, i) = "]" THEN [ok |-> TRUE, items |-> items, next |-> i + 1]
        ELSE second(parseClassAtom(p, i))

parseCharacterClass(p, i) ==
    LET negated == i + 1 <= Len(p) /\ CharAt(p, i + 1) = "^"
        class(r) == IF ~r.ok THEN SyntaxError
                    ELSE Parsed(CharacterClass(negated, r.items), r.next)
    IN  class(parseClassRanges(p, IF negated THEN i + 2 ELSE i + 1, <<>>))

RECURSIVE parseDisjunction(_, _)
RECURSIVE parseAlternative(_, _, _)
RECURSIVE parseTerm(_, _)
RECURSIVE parseGroup(_, _)

\* Alternative | Alternative | ...
parseDisjunction(p, i) ==
    LET either(left, right) ==
            IF ~right.ok THEN SyntaxError
            ELSE Parsed(Disjunction(left.node, right.node), right.next)
        rest(left) ==
            IF ~left.ok THEN SyntaxError
            ELSE IF left.next <= Len(p) /\ CharAt(p, left.next) = "|"
            THEN either(left, parseDisjunction(p, left.next + 1))
            ELSE left
    IN  rest(parseAlternative(p, i, <<>>))

\* The terms up to the next | or ) or the end of the pattern.
parseAlternative(p, i, terms) ==
    LET rest(term) ==
            IF ~term.ok THEN SyntaxError
            ELSE parseAlternative(p, term.next, Append(terms, term.node))
    IN  IF i > Len(p) \/ CharAt(p, i) \in {"|", ")"} THEN Parsed(Alternative(terms), i)
        ELSE rest(parseTerm(p, i))

\* The group whose ( is at position i of p.  A lookbehind assertion takes
\* no quantifier.
parseGroup(p, i) ==
    LET at(k)   == IF k <= Len(p) THEN CharAt(p, k) ELSE ""
        special == at(i + 1) = "?"
        behind  == special /\ at(i + 2) = "<"
        kind    == IF ~special THEN "capture"
                   ELSE IF behind THEN at(i + 3) ELSE at(i + 2)
        start   == IF ~special THEN i + 1 ELSE IF behind THEN i + 4 ELSE i + 3
        group(body) ==
            IF ~body.ok \/ at(body.next) # ")" THEN SyntaxError
            ELSE IF kind \in {"capture", ":"} THEN Parsed(body.node, body.next + 1)
            ELSE Parsed(Lookaround(behind, kind = "!", body.node), body.next + 1)
        quantified(atom) ==
            IF ~atom.ok \/ behind THEN atom
            ELSE parseQuantifier(p, atom.next, atom.node)
    IN  IF kind \notin {"capture", ":", "=", "!"} \/ (behind /\ kind = ":")
        THEN SyntaxError
        ELSE quantified(group(parseDisjunction(p, start)))

\* An assertion, or an atom with its quantifier.
parseTerm(p, i) ==
    LET c == CharAt(p, i)
        e == CharAt(p, i + 1)
        quantified(atom) ==
            IF ~atom.ok THEN SyntaxError
            ELSE parseQuantifier(p, atom.next, atom.node)
    IN  IF c = "^" THEN Parsed(LineStart, i + 1)
        ELSE IF c = "$" THEN Parsed(LineEnd, i + 1)
        ELSE IF c \in {"*", "+", "?"} THEN SyntaxError
        ELSE IF c = "{" /\ bracedQuantifier(p, i).ok THEN SyntaxError
        ELSE IF c = "(" THEN parseGroup(p, i)
        ELSE IF c = "\\" /\ i + 1 > Len(p) THEN SyntaxError
        ELSE IF c = "\\" /\ e \in {"b", "B"} THEN Parsed(WordBoundary(e = "B"), i + 2)
        ELSE quantified(IF c = "[" THEN parseCharacterClass(p, i)
                        ELSE IF c = "." THEN Parsed(AnyChar, i + 1)
                        ELSE IF c = "\\" THEN parseAtomEscape(e, i + 1)
                        ELSE Parsed(Char(c), i + 1))

\* new RegExp(args, 'i'): the parsed pattern; a pattern that does not end
\* where its disjunction ends has an unmatched ).
RegExp(args) ==
    LET whole(r) == IF r.ok /\ r.next = Len(args) + 1 THEN r ELSE SyntaxError
    IN  whole(parseDisjunction(args, 1))

\* new RegExp(args, 'i') throws a SyntaxError.
RegExpThrows(args) == ~RegExp(args).ok

\* Character ch of the text is in the class, letter case ignored: some
\* member of the class and ch have the same upper-case form.
ClassContains(items, ch) ==
    \E k \in 1..Len(items) :
        LET item == items[k]
        IN  IF item.kind = "range"
            THEN \/ charCodeAt(UpperChar(ch)) \in item.from..item.to
                 \/ charCodeAt(LowerChar(ch)) \in item.from..item.to
            ELSE \/ item.name = "d" /\ IsDigit(ch)
                 \/ item.name = "D" /\ ~IsDigit(ch)
                 \/ item.name = "w" /\ IsWordChar(ch)
                 \/ item.name = "W" /\ ~IsWordChar(ch)
                 \/ item.name = "s" /\ IsWhiteSpace(ch)
                 \/ item.name = "S" /\ ~IsWhiteSpace(ch)

\* The atom that consumes one character accepts ch.
Accepts(node, ch) ==
    IF node.type = "char" THEN UpperChar(node.c) = UpperChar(ch)
    ELSE IF node.type = "any" THEN ~IsLineTerminator(ch)
    ELSE ClassContains(node.items, ch) # node.negated

\* The positions (0..Len(f), counted in characters passed) at which a match
\* of the node can end when it starts at one of the positions in from.
RECURSIVE Ends(_, _, _)
RECURSIVE EndsOfTerms(_, _, _)
RECURSIVE EndsOfRepeat(_, _, _, _, _)

EndsOfTerms(terms, f, from) ==
    IF terms = <<>> THEN from
    ELSE EndsOfTerms(Tail(terms), f, Ends(Head(terms), f, from))

EndsOfRepeat(atom, f, from, min, max) ==
    LET more == Ends(atom, f, from)
    IN  IF from = {} THEN {}
        ELSE IF min > 0
        THEN EndsOfRepeat(atom, f, more, min - 1,
                          IF max = Infinity THEN Infinity ELSE max - 1)
        ELSE IF max = 0 THEN from
        ELSE IF max = Infinity
        THEN IF more \subseteq from THEN from
             ELSE EndsOfRepeat(atom, f, from \cup more, 0, Infinity)
        ELSE from \cup EndsOfRepeat(atom, f, more, 0, max - 1)

Ends(node, f, from) ==
    LET isWord(k) == k \in 1..Len(f) /\ IsWordChar(CharAt(f, k))
    IN  IF node.type = "empty" THEN from
        ELSE IF node.type = "alternative" THEN EndsOfTerms(node.terms, f, from)
        ELSE IF node.type = "disjunction"
        THEN Ends(node.left, f, from) \cup Ends(node.right, f, from)
        ELSE IF node.type = "quantified"
        THEN EndsOfRepeat(node.atom, f, from, node.min, node.max)
        ELSE IF node.type = "^" THEN from \cap {0}
        ELSE IF node.type = "$" THEN from \cap {Len(f)}
        ELSE IF node.type = "\\b"
        THEN {s \in from : (isWord(s) # isWord(s + 1)) # node.negated}
        ELSE IF node.type = "lookaround"
        THEN {s \in from :
                (IF node.behind THEN s \in Ends(node.body, f, 0..s)
                 ELSE Ends(node.body, f, {s}) # {}) # node.negated}
        ELSE {s + 1 : s \in {t \in from : t < Len(f) /\ Accepts(node, CharAt(f, t + 1))}}

\* regex.test(f) for regex = new RegExp(args, 'i') that did not throw: the
\* pattern matches somewhere in f.
regexTest(args, f) == Ends(RegExp(args).node, f, 0..Len(f)) # {}

(***************************************************************************)
(* Commands: each handler as a function of the session state and of        *)
(* context.prFiles.  The handlers' console output is not modelled, nor is  *)
(* context.files, which only the output reads.                             *)
(***************************************************************************)
\* A viewing handler that empties the comment lists it has displayed.
readOnly_dropComments(st) == updateState(st, [comments |-> InitialState.comments])

\* showDiff, showOriginal, showNew, listFiles, listPRs, showReviewSummary,
\* askGemini, showHistory and showHelp read the state and print.
readOnly(st) == st

\* selectFile with the index wrapping around at both ends of the list.
selectFile_wrap(st, files, args) ==
    LET cur   == st.currentFileIndex
        n     == Len(files)
        raw   == IF args = "+" THEN <<(IF FalsyNum(cur) THEN 0 ELSE cur[1]) + 1>>
                 ELSE IF args = "-" THEN <<(IF FalsyNum(cur) THEN 2 ELSE cur[1]) - 1>>
                 ELSE parseInt(args)
        index == IF isNaN(raw) \/ n = 0 THEN raw
                 ELSE IF raw[1] > n THEN <<1>>
                 ELSE IF raw[1] < 1 THEN <<n>> ELSE raw
    IN  IF FalsyNum(st.prNumber) THEN st
        ELSE IF isNaN(index) \/ index[1] < 1 \/ index[1] > Len(files) THEN st
        ELSE updateState(st, [currentFileIndex |-> index,
                              currentFileName |-> <<files[index[1]]>>])

\* The index selectFile computes from its argument.
selectFileIndex(st, args) ==
    LET cur == st.currentFileIndex
    IN  IF args = "+" THEN <<(IF FalsyNum(cur) THEN 0 ELSE cur[1]) + 1>>
        ELSE IF args = "-" THEN <<(IF FalsyNum(cur) THEN 2 ELSE cur[1]) - 1>>
        ELSE parseInt(args)

selectFile(st, files, args) ==
    LET index == selectFileIndex(st, args)
    IN  IF FalsyNum(st.prNumber) THEN st
        ELSE IF isNaN(index) \/ index[1] < 1 \/ index[1] > Len(files) THEN st
        ELSE readOnly(updateState(st, [currentFileIndex |-> index,
                                       currentFileName |-> <<files[index[1]]>>]))

\* String(n) for an integer n >= 0.
RECURSIVE String(_)
String(n) ==
    IF n < 10 THEN CharAt("0123456789", n + 1)
    ELSE String(n \div 10) \o CharAt("0123456789", (n % 10) + 1)

\* selectFileByName taking the last matching file instead of the first.
selectFileByName_last(st, files, args) ==
    LET matches == IF RegExpThrows(args) THEN {}
                   ELSE {i \in 1..Len(files) : regexTest(args, files[i])}
    IN  IF FalsyNum(st.prNumber) \/ trim(args) = "" \/ matches = {} THEN st
        ELSE selectFile(st, files,
                        String(CHOOSE i \in matches : \A j \in matches : i >= j))

\* context.prFiles.findIndex((f) => regex.test(f)), 0-based, -1 when no
\* file name matches.
findIndex(files, args) ==
    LET first(matches) ==
            IF matches = {} THEN -1
            ELSE (CHOOSE i \in matches : \A j \in matches : i <= j) - 1
    IN  first({i \in 1..Len(files) : regexTest(args, files[i])})

selectFileByName(st, files, args) ==
    LET select(matchIndex) ==
            IF matchIndex = -1 THEN st
            ELSE selectFile(st, files, String(matchIndex + 1))
    IN  IF FalsyNum(st.prNumber) THEN st
        ELSE IF trim(args) = "" THEN st
        ELSE IF RegExpThrows(args) THEN st
        ELSE select(findIndex(files, args))

\* selectPR without the selection of the first file.
selectPR_noAutoSelect(st, files, args, response) ==
    LET prNumber == parseInt(args)
        loaded   == [st EXCEPT !.prNumber = prNumber,
                               !.currentFileIndex = undefined,
                               !.currentFileName = undefined]
    IN  IF isNaN(prNumber) \/ ~response.ok THEN [state |-> st, prFiles |-> files]
        ELSE [state |-> loaded, prFiles |-> response.files]

\* selectPR starting the review of the loaded PR with no comments.
selectPR_newReview(st, files, args, response) ==
    LET prNumber == parseInt(args)
        loaded   == updateState(st, [prNumber |-> prNumber,
                                     currentFileIndex |-> undefined,
                                     currentFileName |-> undefined,
                                     comments |-> InitialState.comments])
    IN  IF isNaN(prNumber) THEN [state |-> st, prFiles |-> files]
        ELSE IF ~response.ok THEN [state |-> st, prFiles |-> files]
        ELSE [state   |-> IF Len(response.files) > 0
                          THEN selectFile(loaded, response.files, "1")
                          ELSE loaded,
              prFiles |-> response.files]

\* selectPR with the session updated before the listing is requested.
selectPR_updateFirst(st, files, args, response) ==
    LET prNumber == parseInt(args)
        loaded   == updateState(st, [prNumber |-> prNumber,
                                     currentFileIndex |-> undefined,
                                     currentFileName |-> undefined])
    IN  IF isNaN(prNumber) THEN [state |-> st, prFiles |-> files]
        ELSE IF ~response.ok THEN [state |-> loaded, prFiles |-> files]
        ELSE [state   |-> IF Len(response.files) > 0
                          THEN selectFile(loaded, response.files, "1")
                          ELSE loaded,
              prFiles |-> response.files]

\* selectPR.  response is what github.getPRFiles answers: ok with the
\* file names of the listing, or not ok when it throws.  The result is the
\* session state and context.prFiles the handler leaves.
selectPR(st, files, args, response) ==
    LET prNumber == parseInt(args)
        loaded   == updateState(st, [prNumber |-> prNumber,
                                     currentFileIndex |-> undefined,
                                     currentFileName |-> undefined])
    IN  IF isNaN(prNumber) THEN [state |-> st, prFiles |-> files]
        ELSE IF ~response.ok THEN [state |-> st, prFiles |-> files]
        ELSE [state   |-> IF Len(response.files) > 0
                          THEN selectFile(loaded, response.files, "1")
                          ELSE loaded,
              prFiles |-> response.files]

\* The names every plain object inherits from Object.prototype.  The lookup
\* state.comments.files[name] finds the inherited member under such a name.
ObjectPrototype ==
    {"constructor", "__proto__", "toString", "toLocaleString", "valueOf",
     "hasOwnProperty", "isPrototypeOf", "propertyIsEnumerable",
     "__defineGetter__", "__defineSetter__", "__lookupGetter__",
     "__lookupSetter__"}

\* addComment throws a TypeError: the comment is for the selected file, and
\* what the lookup of the file's name finds is no array (push is not a
\* function).  Nothing was assigned before the throw.
addCommentThrows(st, args) ==
    LET parts    == splitWsLimit(args, 2)
        position == parts[1]
        text     == IF Len(parts) >= 2 THEN parts[2] ELSE ""
    IN  /\ position # ""
        /\ text # ""
        /\ toLowerCase(position) # "g"
        /\ ~FalsyStr(st.currentFileName)
        /\ ~isNaN(parseInt(position))
        /\ st.currentFileName[1] \in ObjectPrototype
        /\ st.currentFileName[1] \notin DOMAIN st.comments.files

\* addComment with the "No file selected" test moved before the test for a
\* global comment.
addComment_fileFirst(st, args) ==
    LET parts    == splitWsLimit(args, 2)
        position == parts[1]
        text     == IF Len(parts) >= 2 THEN parts[2] ELSE ""
        pos      == parseInt(position)
        name     == st.currentFileName[1]
        files    == st.comments.files
        old      == IF name \in DOMAIN files THEN files[name] ELSE <<>>
    IN  IF position = "" \/ text = "" THEN st
        ELSE IF FalsyStr(st.currentFileName) THEN st
        ELSE IF toLowerCase(position) = "g"
        THEN [st EXCEPT !.comments.global =
                 Append(@, [body |-> text, status |-> "local"])]
        ELSE IF isNaN(pos) THEN st
        ELSE IF addCommentThrows(st, args) THEN st
        ELSE [st EXCEPT !.comments.files =
                 (name :> Append(old, [body |-> text, path |-> name,
                                       position |-> pos[1], status |-> "local"]))
                 @@ @]

\* addComment without the test for missing comment text.
addComment_noTextTest(st, args) ==
    LET parts    == splitWsLimit(args, 2)
        position == parts[1]
        text     == IF Len(parts) >= 2 THEN parts[2] ELSE ""
        pos      == parseInt(position)
        name     == st.currentFileName[1]
        files    == st.comments.files
        old      == IF name \in DOMAIN files THEN files[name] ELSE <<>>
    IN  IF position = "" THEN st
        ELSE IF toLowerCase(position) = "g"
        THEN updateState(st, [st EXCEPT !.comments.global =
                 Append(@, [body |-> text, status |-> "local"])])
        ELSE IF FalsyStr(st.currentFileName) THEN st
        ELSE IF isNaN(pos) THEN st
        ELSE IF addCommentThrows(st, args) THEN st
        ELSE updateState(st, [st EXCEPT !.comments.files =
                 (name :> Append(old, [body |-> text, path |-> name,
                                       position |-> pos[1], status |-> "local"]))
                 @@ @])

addComment(st, args) ==
    LET parts    == splitWsLimit(args, 2)
        position == parts[1]
        text     == IF Len(parts) >= 2 THEN parts[2] ELSE ""
        pos      == parseInt(position)
        name     == st.currentFileName[1]
        files    == st.comments.files
        old      == IF name \in DOMAIN files THEN files[name] ELSE <<>>
    IN  IF position = "" THEN st
        ELSE IF text = "" THEN st
        ELSE IF toLowerCase(position) = "g"
        THEN updateState(st, [st EXCEPT !.comments.global =
                 Append(@, [body |-> text, status |-> "local"])])
        ELSE IF FalsyStr(st.currentFileName) THEN st
        ELSE IF isNaN(pos) THEN st
        ELSE IF addCommentThrows(st, args) THEN st
        ELSE updateState(st, [st EXCEPT !.comments.files =
                 (name :> Append(old, [body |-> text, path |-> name,
                                       position |-> pos[1], status |-> "local"]))
                 @@ @])

(***************************************************************************)
(* GeminiClient.  A message is a role and a text.  A request ends when     *)
(* fetch rejects, or with an HTTP response: its status and what reading    *)
(* its body as text and as JSON gives.  The JSON values of the model are   *)
(* null, arrays, objects and, as the text of a part, strings; no object    *)
(* has a member named length.                                              *)
(***************************************************************************)
Message(role, text) == [role |-> role, parts |-> <<[text |-> text]>>]

\* new GeminiClient({apiKey, systemInstruction})
NewGemini(systemInstruction) ==
    [history |-> <<>>, systemInstruction |-> systemInstruction, pending |-> <<>>]

\* The messages reply sends.
replyMessages(client, userText) ==
    (IF FalsyStr(client.systemInstruction) THEN <<>>
     ELSE <<Message("user", client.systemInstruction[1])>>)
    \o <<Message("user", userText)>>

\* The body sendRequest posts.
payload(client, messages) ==
    [contents |-> messages,
     systemInstruction |->
         IF ~FalsyStr(client.systemInstruction) /\ Len(messages) > 1
         THEN <<[parts |-> <<[text |-> client.systemInstruction[1]]>>]>>
         ELSE undefined]

\* The values JSON.parse gives, and what reading a missing member gives.
JSONnull == [type |-> "null"]
JSONstring(string) == [type |-> "string", string |-> string]
JSONarray(items) == [type |-> "array", items |-> items]
JSONobject(members) == [type |-> "object", members |-> members]
JSONundefined == [type |-> "undefined"]

\* if (value)
Truthy(value) ==
    value.type \notin {"undefined", "null"} /\ value # JSONstring("")

\* value.key, value being neither null nor undefined
Member(value, key) ==
    IF value.type = "object" /\ key \in DOMAIN value.members
    THEN value.members[key] ELSE JSONundefined

\* value.length > 0
HasItems(value) == value.type = "array" /\ value.items # <<>>

\* A thrown value: an Error with its name and message, or something that
\* is not an Error.
Error(name, message) == [isError |-> TRUE, name |-> name, message |-> message]
NotAnError == [isError |-> FALSE, name |-> "", message |-> ""]

\* How a call or an awaited promise ends.
Returns(value) == [threw |-> FALSE, value |-> value]
Throws(error) == [threw |-> TRUE, error |-> error]

\* fetch rejects: with an AbortError when the timeout aborts the request.
Rejects(reason) == [kind |-> "rejected", reason |-> reason]
\* fetch resolves; text and json are how response.text() and
\* response.json() end.
Http(ok, status, text, json) ==
    [kind |-> "http", ok |-> ok, status |-> status, text |-> text, json |-> json]

\* sendRequest once the request has ended with response: the string it
\* returns or the error it throws.
sendRequest(response) ==
    LET nullRead(key) ==
            Throws(Error("TypeError", "Cannot read properties of null (reading '"
                                      \o key \o "')"))
        invalid == Throws(Error("Error", "No valid response from Gemini API"))
        text(part) ==
            IF part = JSONnull THEN nullRead("text")
            ELSE Returns(IF Truthy(Member(part, "text"))
                         THEN Member(part, "text").string ELSE "No response text")
        \* content?.parts
        parts(content) ==
            IF content \in {JSONnull, JSONundefined} THEN JSONundefined
            ELSE Member(content, "parts")
        firstPart(found) ==
            IF Truthy(found) /\ HasItems(found) THEN text(found.items[1]) ELSE invalid
        content(candidate) ==
            IF candidate = JSONnull THEN nullRead("content")
            ELSE firstPart(parts(Member(candidate, "content")))
        candidates(found) ==
            IF Truthy(found) /\ HasItems(found) THEN content(found.items[1]) ELSE invalid
        body(data) ==
            IF data = JSONnull THEN nullRead("candidates")
            ELSE candidates(Member(data, "candidates"))
        \* the try block
        try == IF response.kind = "rejected" THEN Throws(response.reason)
               ELSE IF ~response.ok
               THEN IF response.text.threw THEN response.text
                    ELSE Throws(Error("Error", "HTTP " \o String(response.status)
                                               \o ": " \o response.text.value))
               ELSE IF response.json.threw THEN response.json
               ELSE body(response.json.value)
        \* the catch clause
        catch(error) ==
            IF error.isError
            THEN IF error.name = "AbortError"
                 THEN Throws(Error("Error", "Request timed out"))
                 ELSE Throws(error)
            ELSE Throws(Error("Error", "Unknown error occurred"))
        settle(outcome) == IF outcome.threw THEN catch(outcome.error) ELSE outcome
    IN  settle(try)

(***************************************************************************)
(* Application.                                                            *)
(***************************************************************************)
\* The handler setupCommands registers under call.cmd, applied to the
\* argument string; the handlers that wait for GitHub (awaitsGitHub) and
\* quit are the event loop's.
runHandler(call, st, files) ==
    IF call.cmd \in {"fn", "+", "-"} THEN selectFile(st, files, call.args)
    ELSE IF call.cmd = "f" THEN selectFileByName(st, files, call.args)
    ELSE IF call.cmd = "ca" THEN addComment(st, call.args)
    ELSE IF call.cmd = "pr"
    THEN selectPR(st, files, call.args, [ok |-> FALSE, files |-> <<>>]).state
    ELSE readOnly(st)

\* The handlers that await a GitHub request: selectPR once its argument is
\* a number (getPRFiles), and listPRs (listPullRequests).
awaitsGitHub(call) ==
    \/ call.cmd = "pr" /\ ~isNaN(parseInt(call.args))
    \/ call.cmd = "lpr"

isQuit(call) == call.cmd \in {"q", "quit"}

\* await x.  Every await gives up the thread, and the code after it runs
\* as a job of the microtask queue.  When x settles in the n-th turn of the
\* queue after the await was reached (0: x is no promise, or a promise
\* settled already), that job runs in turn n + 1.
await(n) == n + 1

\* The turn of the microtask queue in which the promise of selectFile
\* settles: it returns at once, or awaits showDiff, which returns at once.
selectFileSettles(st, files, args) ==
    LET index == selectFileIndex(st, args)
    IN  IF FalsyNum(st.prNumber) THEN 0
        ELSE IF isNaN(index) \/ index[1] < 1 \/ index[1] > Len(files) THEN 0
        ELSE await(0)

\* selectFileByName returns at once, or awaits selectFile.
selectFileByNameSettles(st, files, args) ==
    LET select(matchIndex) ==
            IF matchIndex = -1 THEN 0
            ELSE await(selectFileSettles(st, files, String(matchIndex + 1)))
    IN  IF FalsyNum(st.prNumber) THEN 0
        ELSE IF trim(args) = "" THEN 0
        ELSE IF RegExpThrows(args) THEN 0
        ELSE select(findIndex(files, args))

\* selectPR from the answer of GitHub on: with files in the listing it
\* awaits selectFile('1'), which runs on the session state it has updated.
selectPRSettles(st, args, response) ==
    LET loaded == updateState(st, [prNumber |-> parseInt(args),
                                   currentFileIndex |-> undefined,
                                   currentFileName |-> undefined])
    IN  IF response.ok /\ Len(response.files) > 0
        THEN await(selectFileSettles(loaded, response.files, "1"))
        ELSE 0

\* The value of the handler call that does not wait for GitHub: the other
\* handlers are no async functions, or return without an await.
handlerSettles(call, st, files) ==
    IF call.cmd \in {"fn", "+", "-"} THEN selectFileSettles(st, files, call.args)
    ELSE IF call.cmd = "f" THEN selectFileByNameSettles(st, files, call.args)
    ELSE 0

\* The handler throws before its first await.
handlerThrows(call, st) ==
    call.called /\ call.cmd = "ca" /\ addCommentThrows(st, call.args)

\* parser.execute: it awaits the handler it calls, and returns at once when
\* it calls none.  When the handler throws, the promise of execute is
\* rejected at once.
executeSettles(call, st, files) ==
    IF call.called /\ ~handlerThrows(call, st)
    THEN await(handlerSettles(call, st, files))
    ELSE 0

\* processLine after await this.parser.execute has returned: the line is
\* recorded unless what was typed is a history lookup.
recordLine(trimmed, expandedLine, history) ==
    IF ~isHistoryLookup(trimmed) THEN addToHistory(history, expandedLine)
    ELSE history

\* processLine up to the point where it gives up the thread: the handler
\* has returned, has reached its first await, or has exited the process.
\* outcome: "none" (blank line, or a back-reference that names nothing),
\* "exit", "request" (the handler waits for GitHub), "await" (processLine
\* waits in the microtask queue, and records the line in the given turn).
processLine(line, st, history, files) ==
    LET trimmed      == trim(line)
        expansion    == processHistoryExpansion(trimmed, history)
        expandedLine == expansion[1]
        call         == execute(expandedLine).call
        idle         == [outcome |-> "none", call |-> NoCall, expandedLine |-> "",
                         state |-> st, turn |-> 0]
    IN  IF trimmed = "" THEN idle
        ELSE IF expansion = <<>> THEN idle
        ELSE IF call.called /\ isQuit(call)
        THEN [idle EXCEPT !.outcome = "exit", !.call = call,
                          !.expandedLine = expandedLine]
        ELSE IF call.called /\ awaitsGitHub(call)
        THEN [idle EXCEPT !.outcome = "request", !.call = call,
                          !.expandedLine = expandedLine]
        ELSE [outcome      |-> "await",
              call         |-> call,
              expandedLine |-> expandedLine,
              state        |-> IF call.called THEN runHandler(call, st, files)
                               ELSE st,
              turn         |-> await(executeSettles(call, st, files))]

(***************************************************************************)
(* GitHub, as the application sees it: a request for the files of a pull   *)
(* request is answered with a listing or fails.                            *)
(***************************************************************************)
Listings(n) ==
    IF n = 1 THEN {<<"a.ts", "b.ts">>}
    ELSE IF n = 2 THEN {<<"c.ts">>, <<>>}
    ELSE IF n = 3 THEN {<<"constructor">>}
    ELSE {}

Failure == [ok |-> FALSE, files |-> <<>>]

Responses(call) ==
    IF call.cmd = "pr"
    THEN {Failure} \cup {[ok |-> TRUE, files |-> l] : l \in Listings(parseInt(call.args)[1])}
    ELSE {Failure, [ok |-> TRUE, files |-> <<>>]}

(***************************************************************************)
(* State.                                                                  *)
(***************************************************************************)
\* The lines typed at the prompt.
Lines == {"pr 1", "pr 2", "lf", "ca 12 Fix this bug", "ca G ok", "q", "  "}

\* The step just taken: its kind, the line (or command) it was given, the
\* handler call it made, GitHub's answer, and the length the history had.
Event(kind, line, call, response) ==
    [kind |-> kind, line |-> line, call |-> call, response |-> response,
     had |-> Len(commandHistory)]

\* The last n elements of a sequence.
LastN(seq, n) == SubSeq(seq, Len(seq) - n + 1, Len(seq))

\* enteredAt after the history went from old to new by recording one line.
Stamp(stamps, old, new, trimmed, expandedLine, n) ==
    IF ~isHistoryLookup(trimmed) /\ trim(expandedLine) # ""
    THEN LastN(Append(stamps, n), Len(new))
    ELSE stamps

Init ==
    /\ phase = "running"
    /\ state = loadSession(InitialState, <<>>)
    /\ commandHistory = loadHistory(<<>>, <<>>)
    /\ prFiles = <<>>
    /\ inflight = <<>>
    /\ microtasks = <<>>
    /\ sessionFile = <<>>
    /\ historyFile = <<>>
    /\ nLines = 0
    /\ nRuns = 1
    /\ nCalls = 0
    /\ parser = setupCommands
    /\ gemini = NewGemini(undefined)
    /\ latestLoad = <<>>
    /\ enteredAt = <<>>
    /\ ev = Event("start", "", NoCall, Failure)

\* quit leaving without writing the files when comments are unpushed.
quit_unsavedWhenUnpushed ==
    /\ IF getUnpushedCommentCount(state) > 0
       THEN UNCHANGED <<sessionFile, historyFile>>
       ELSE /\ sessionFile' = saveSession(state)
            /\ historyFile' = saveHistory(commandHistory)
    /\ phase' = "exited"
    /\ inflight' = <<>>
    /\ microtasks' = <<>>
    /\ UNCHANGED <<state, commandHistory, prFiles, nRuns, nCalls, enteredAt>>

\* Application.quit: both files are written, then the process exits and
\* its pending handlers with it.
quit ==
    /\ sessionFile' = saveSession(state)
    /\ historyFile' = saveHistory(commandHistory)
    /\ phase' = "exited"
    /\ inflight' = <<>>
    /\ microtasks' = <<>>
    /\ UNCHANGED <<state, commandHistory, prFiles, nRuns, nCalls, enteredAt>>

\* A handler waiting in the microtask queue: the event that put it there,
\* the line it was given, the turn of the queue in which processLine goes
\* on after await this.parser.execute, and whether it goes on in its catch
\* block (the handler threw) and leaves the try block behind.
Job(event, trimmed, expandedLine, n, turn, threw) ==
    [event |-> event, trimmed |-> trimmed, expandedLine |-> expandedLine,
     n |-> n, turn |-> turn, threw |-> threw]

\* The jobs of the queue were all put there by this kind of event: the
\* queue is emptied before the event loop takes an event of another kind.
OnlyFrom(event) == \A k \in 1..Len(microtasks) : microtasks[k].event = event

\* readline's 'line' event: processLine runs until it gives up the thread.
\* The handler is async and readline does not wait for it: the lines that
\* one read of the input holds (piped input, pasted text) are emitted one
\* after the other, each before the handlers of the lines before it go on,
\* and further lines are taken while a request is pending.
Line(line) ==
    /\ UNCHANGED gemini
    /\ phase = "running"
    /\ OnlyFrom("line")
    /\ nLines < MaxLines
    /\ nLines' = nLines + 1
    /\ UNCHANGED <<parser, latestLoad>>
    /\ LET step(r) ==
               /\ ev' = Event("line", line, r.call, Failure)
               /\ IF r.outcome = "exit" THEN quit
                  ELSE /\ state' = r.state
                       /\ inflight' =
                              IF r.outcome = "request"
                              THEN Append(inflight,
                                       [trimmed |-> trim(line),
                                        expandedLine |-> r.expandedLine,
                                        call |-> r.call, n |-> nLines + 1])
                              ELSE inflight
                       /\ microtasks' =
                              IF r.outcome = "await"
                              THEN Append(microtasks,
                                       Job("line", trim(line), r.expandedLine,
                                           nLines + 1, r.turn,
                                           handlerThrows(r.call, state)))
                              ELSE microtasks
                       /\ UNCHANGED <<phase, commandHistory, prFiles, sessionFile,
                                      historyFile, nRuns, nCalls, enteredAt>>
       IN  step(processLine(line, state, commandHistory, prFiles))

\* GitHub answers the request of the i-th waiting handler, which goes on
\* until it returns or awaits again.  Answers that arrive together are
\* taken one after the other before any of the handlers goes on further.
Response(i, response) ==
    /\ UNCHANGED gemini
    /\ phase = "running"
    /\ OnlyFrom("response")
    /\ i \in 1..Len(inflight)
    /\ LET h       == inflight[i]
           r       == IF h.call.cmd = "pr"
                      THEN selectPR(state, prFiles, h.call.args, response)
                      ELSE [state |-> readOnly(state), prFiles |-> prFiles]
           settles == IF h.call.cmd = "pr"
                      THEN selectPRSettles(state, h.call.args, response)
                      ELSE 0
       IN  /\ response \in Responses(h.call)
           /\ state' = r.state
           /\ prFiles' = r.prFiles
           /\ microtasks' = Append(microtasks,
                                  Job("response", h.trimmed, h.expandedLine, h.n,
                                      await(await(settles)), FALSE))
           /\ inflight' = SubSeq(inflight, 1, i - 1) \o
                          SubSeq(inflight, i + 1, Len(inflight))
           /\ latestLoad' =
                  IF /\ h.call.cmd = "pr" /\ response.ok
                     /\ (latestLoad = <<>> \/ h.n > latestLoad[1].n)
                  THEN <<[n |-> h.n, prNumber |-> parseInt(h.call.args),
                          files |-> response.files]>>
                  ELSE latestLoad
           /\ ev' = Event("response", h.trimmed, h.call, response)
    /\ UNCHANGED <<phase, commandHistory, enteredAt, sessionFile, historyFile,
                   nLines, nRuns, nCalls, parser>>

\* The order in which the jobs of the queue reach their turn: each turn of
\* the queue takes the waiting handlers one step on, in the order they
\* began to wait.
RECURSIVE runOrder(_, _)
runOrder(queue, turn) ==
    IF queue = <<>> THEN <<>>
    ELSE SelectSeq(queue, LAMBDA job : job.turn = turn)
         \o runOrder(SelectSeq(queue, LAMBDA job : job.turn # turn), turn + 1)

\* processLine of each job in order, from await this.parser.execute on:
\* the rest of the try block, or the catch block, which records nothing.
RECURSIVE resume(_, _, _)
resume(jobs, history, stamps) ==
    IF jobs = <<>> THEN [history |-> history, enteredAt |-> stamps]
    ELSE LET job  == Head(jobs)
             hist == recordLine(job.trimmed, job.expandedLine, history)
         IN  IF job.threw THEN resume(Tail(jobs), history, stamps)
             ELSE resume(Tail(jobs), hist,
                         Stamp(stamps, history, hist, job.trimmed,
                               job.expandedLine, job.n))

\* The event loop empties the microtask queue before it takes its next
\* event: the handlers waiting there go on to their ends, and each
\* processLine records its line unless its handler threw.
RunMicrotasks ==
    /\ UNCHANGED gemini
    /\ phase = "running"
    /\ microtasks # <<>>
    /\ LET r == resume(runOrder(microtasks, 1), commandHistory, enteredAt)
       IN  /\ commandHistory' = r.history
           /\ enteredAt' = r.enteredAt
    /\ microtasks' = <<>>
    /\ ev' = Event("microtasks", "", NoCall, Failure)
    /\ UNCHANGED <<phase, state, prFiles, inflight, sessionFile, historyFile,
                   nLines, nRuns, nCalls, parser, latestLoad>>

\* readline's 'close' event (end of input).  When the input ends with a
\* line that has no line feed, readline emits that line and 'close' one
\* after the other, so that the handler of one line may be waiting.
Close ==
    /\ UNCHANGED gemini
    /\ phase = "running"
    /\ OnlyFrom("line")
    /\ Len(microtasks) <= 1
    /\ quit
    /\ ev' = Event("close", "", NoCall, Failure)
    /\ UNCHANGED <<nLines, parser, latestLoad>>

\* new Application() in the same directory: the SessionManager constructor
\* reads both files; the context starts with no files.
Start ==
    /\ UNCHANGED gemini
    /\ phase = "exited"
    /\ nRuns < MaxRuns
    /\ nRuns' = nRuns + 1
    /\ phase' = "running"
    /\ state' = loadSession(InitialState, sessionFile)
    /\ commandHistory' = loadHistory(<<>>, historyFile)
    /\ enteredAt' = [i \in 1..Len(commandHistory') |-> 0]
    /\ prFiles' = <<>>
    /\ inflight' = <<>>
    /\ microtasks' = <<>>
    /\ parser' = setupCommands
    /\ latestLoad' = <<>>
    /\ ev' = Event("start", "", NoCall, Failure)
    /\ UNCHANGED <<sessionFile, historyFile, nLines, nCalls>>

Next ==
    \/ \E line \in Lines : Line(line)
    \/ \E i \in 1..Len(inflight) : \E response \in Responses(inflight[i].call) :
           Response(i, response)
    \/ RunMicrotasks
    \/ Close
    \/ Start

Spec == Init /\ [][Next]_vars

\* '-'.repeat(100)
RECURSIVE repeat(_, _)
repeat(str, count) == IF count = 0 THEN "" ELSE str \o repeat(str, count - 1)

\* ((num / den) * 100).toFixed(1) for integers num >= 0 and den > 0: the
\* division and the multiplication each give the nearest double, and
\* toFixed gives n / 10 for the integer n nearest to ten times that double,
\* the larger n of two that are equally near.  A binary number is the
\* sequence of its bits, the lowest first; a double that is not zero is a
\* mantissa of 53 bits, the highest of them 1, and the power of two it is
\* multiplied by.
toFixed1(num, den) ==
    LET \* bits * k + c for small k and c
        RECURSIVE mulAdd(_, _, _)
        mulAdd(bits, k, c) ==
            IF bits = <<>>
            THEN IF c = 0 THEN <<>> ELSE <<c % 2>> \o mulAdd(<<>>, k, c \div 2)
            ELSE <<(Head(bits) * k + c) % 2>>
                 \o mulAdd(Tail(bits), k, (Head(bits) * k + c) \div 2)
        \* the number the bits stand for
        RECURSIVE toNumber(_)
        toNumber(bits) ==
            IF bits = <<>> THEN 0 ELSE Head(bits) + 2 * toNumber(Tail(bits))
        \* The double nearest to bits * 2^exp, where bits has 54 bits or
        \* more and sticky tells that the exact number is larger than that:
        \* round to nearest, ties to even.
        roundToDouble(bits, exp, sticky) ==
            LET dropped  == Len(bits) - 53
                mantissa == SubSeq(bits, dropped + 1, Len(bits))
                more     == sticky \/ \E k \in 1..(dropped - 1) : bits[k] = 1
                up       == bits[dropped] = 1 /\ (more \/ mantissa[1] = 1)
                \* m has 54 bits when the mantissa was all ones and went up
                carried(m) == [bits |-> SubSeq(m, Len(m) - 52, Len(m)),
                               exp  |-> exp + dropped + (Len(m) - 53)]
            IN  carried(IF up THEN mulAdd(mantissa, 1, 1) ELSE mantissa)
        \* The quotient of a long division by den, taken on to 54 bits from
        \* its first 1.  q is the quotient so far, q.bits * 2^q.exp, and r
        \* the remainder; sticky tells that the last remainder is not zero.
        RECURSIVE divide(_, _)
        divide(r, q) ==
            IF Len(q.bits) >= 54
            THEN [bits |-> q.bits, exp |-> q.exp, sticky |-> r # 0]
            ELSE divide((2 * r) % den,
                        [bits |-> IF q.bits = <<>> /\ 2 * r < den THEN <<>>
                                  ELSE <<(2 * r) \div den>> \o q.bits,
                         exp  |-> q.exp - 1])
        \* x.toFixed(1) for a double x; tenfold: the bits of 10 * x / 2^x.exp
        digits(x, tenfold) ==
            LET half   == 0 - x.exp
                tenths == toNumber(SubSeq(tenfold, half + 1, Len(tenfold)))
                          + (IF half \in 1..Len(tenfold) /\ tenfold[half] = 1
                             THEN 1 ELSE 0)
            IN  String(tenths \div 10) \o "." \o String(tenths % 10)
        fixed(x) == digits(x, mulAdd(x.bits, 10, 0))
        percent(q) == fixed(roundToDouble(mulAdd(q.bits, 100, 0), q.exp, FALSE))
        quotient(d) == percent(roundToDouble(d.bits, d.exp, d.sticky))
    IN  IF num = 0 THEN "0.0"
        ELSE quotient(divide(num % den,
                             [bits |-> mulAdd(<<>>, 1, num \div den), exp |-> 0]))

getPrompt(st, files) ==
    LET totalFiles   == Len(files)
        currentIndex == IF FalsyNum(st.currentFileIndex) THEN 0
                        ELSE st.currentFileIndex[1]
        percentage   == IF totalFiles > 0 THEN toFixed1(currentIndex, totalFiles)
                        ELSE "0.0"
    IN  "\n" \o repeat("-", 100) \o "\nghr"
        \o (IF FalsyNum(st.prNumber) THEN ""
            ELSE " #" \o String(st.prNumber[1])
                 \o (IF FalsyStr(st.currentFileName) THEN ""
                     ELSE " [" \o String(currentIndex) \o "/" \o String(totalFiles)
                          \o " | " \o percentage \o "%] " \o st.currentFileName[1]))
        \o " > "

\* The prompt on the terminal once the microtask queue is empty.  run sets
\* it before the first line and each 'line' handler sets it again when its
\* processLine has returned, which is in the turn of the event loop in
\* which the handler last changed the state.
displayedPrompt == getPrompt(state, prFiles)

(***************************************************************************)
(* The application driven by history back-references among other lines.    *)
(***************************************************************************)
RefLines == {"pr 1", "lf", "ca g ok", "!!", "!1", "!2", "!0"}

NextRef ==
    \/ \E line \in RefLines : Line(line)
    \/ \E i \in 1..Len(inflight) : \E response \in Responses(inflight[i].call) :
           Response(i, response)
    \/ RunMicrotasks
    \/ Close
    \/ Start

SpecRef == Init /\ [][NextRef]_vars

(***************************************************************************)
(* The application driven by the file selection commands.                  *)
(***************************************************************************)
NavLines == {"pr 1", "+", "-", "+ 1", "fn 2", "fn 3", "fn x", "fn +"}

NextNav ==
    \/ \E line \in NavLines : Line(line)
    \/ \E i \in 1..Len(inflight) : \E response \in Responses(inflight[i].call) :
           Response(i, response)
    \/ RunMicrotasks
    \/ Close
    \/ Start

SpecNav == Init /\ [][NextNav]_vars

FindLines == {"pr 1", "+", "f B", "f ^b", "f \\.TS$", "f a|zz", "f zz", "f (", "f"}

NextFind ==
    \/ \E line \in FindLines : Line(line)
    \/ \E i \in 1..Len(inflight) : \E response \in Responses(inflight[i].call) :
           Response(i, response)
    \/ RunMicrotasks
    \/ Close
    \/ Start

SpecFind == Init /\ [][NextFind]_vars

(***************************************************************************)
(* The application driven by PR selection, comments and the quit commands. *)
(***************************************************************************)
SessionLines == {"pr 1", "pr x", "pr", "ca g needs tests", "+", "q", "quit"}

NextSession ==
    \/ \E line \in SessionLines : Line(line)
    \/ \E i \in 1..Len(inflight) : \E response \in Responses(inflight[i].call) :
           Response(i, response)
    \/ RunMicrotasks
    \/ Close
    \/ Start

SpecSession == Init /\ [][NextSession]_vars

(***************************************************************************)
(* The application driven by the commands of the migration guide.          *)
(***************************************************************************)
\* The commands the guide's compatibility table marks as implemented
\* (!! and !n, which processLine expands, left aside).
GuideImplemented ==
    {"pr", "lpr", "q", "?", "h",
     "lf", "fn", "f", "+", "-",
     "dd", "ddiw", "do", "dn",
     "ca", "cd", "rs", "lc", "lgc",
     "g", "gl", "g+", "g-",
     "ajim"}

NextGuide ==
    \/ \E line \in GuideImplemented : Line(line)
    \/ \E i \in 1..Len(inflight) : \E response \in Responses(inflight[i].call) :
           Response(i, response)
    \/ RunMicrotasks
    \/ Close
    \/ Start

SpecGuide == Init /\ [][NextGuide]_vars

(***************************************************************************)
(* The application driven by history commands among other lines.           *)
(***************************************************************************)
HistLines == {"pr 1", "lf", "zz top", "h", "H", "history", "!!", "!1", "!", "q"}

NextHist ==
    \/ \E line \in HistLines : Line(line)
    \/ \E i \in 1..Len(inflight) : \E response \in Responses(inflight[i].call) :
           Response(i, response)
    \/ RunMicrotasks
    \/ Close
    \/ Start

SpecHist == Init /\ [][NextHist]_vars

(***************************************************************************)
(* The application driven by the comment command.                          *)
(***************************************************************************)
CommentLines ==
    {"pr 1", "pr 3", "ca", "ca g", "ca x fix it", "ca 12 fix it", "ca g ok"}

NextComment ==
    \/ \E line \in CommentLines : Line(line)
    \/ \E i \in 1..Len(inflight) : \E response \in Responses(inflight[i].call) :
           Response(i, response)
    \/ RunMicrotasks
    \/ Close
    \/ Start

SpecComment == Init /\ [][NextComment]_vars

(***************************************************************************)
(* The application driven by comments and changes of the selection.        *)
(***************************************************************************)
ReviewLines == {"pr 1", "pr 2", "+", "fn 1", "ca 12 fix it", "ca g ok"}

NextReview ==
    \/ \E line \in ReviewLines : Line(line)
    \/ \E i \in 1..Len(inflight) : \E response \in Responses(inflight[i].call) :
           Response(i, response)
    \/ RunMicrotasks
    \/ Close
    \/ Start

SpecReview == Init /\ [][NextReview]_vars

(***************************************************************************)
(* The application driven by the viewing and listing commands.             *)
(***************************************************************************)
ViewCommands == {"lf", "dd", "ddiw", "do", "dn", "rs", "h", "?", "lpr", "ajim"}
ViewLines == ViewCommands \cup {"pr 1", "ca g ok"}

NextView ==
    \/ \E line \in ViewLines : Line(line)
    \/ \E i \in 1..Len(inflight) : \E response \in Responses(inflight[i].call) :
           Response(i, response)
    \/ RunMicrotasks
    \/ Close
    \/ Start

SpecView == Init /\ [][NextView]_vars

(***************************************************************************)
(* SessionManager on its own: any sequence of addToHistory, saveHistory,   *)
(* resetSession and new SessionManager(maxHistorySize) in one directory,   *)
(* starting with any history file and any session file.                    *)
(***************************************************************************)
\* The commands addToHistory is given.
HistoryCommands == {"lf", "  pr 1 ", "dd\nlf", "", "  "}

\* The history file the first SessionManager finds.
HistoryFiles == {<<>>, <<"pr 1\n\n  \nlf\n fn 2\ndd\nrs\n">>}

\* The session file the SessionManagers find: none, or the one written for
\* a session with a file selected and a global comment.
SessionFiles ==
    {<<>>,
     saveSession([prNumber |-> <<1>>, currentFileIndex |-> <<1>>,
                  currentFileName |-> <<"a.ts">>,
                  comments |-> [global |-> <<[body |-> "ok", status |-> "local"]>>,
                                files |-> EmptyFiles]])}

InitSM ==
    /\ historyFile \in HistoryFiles
    /\ sessionFile \in SessionFiles
    /\ phase = "running"
    /\ state = loadSession(InitialState, sessionFile)
    /\ commandHistory = loadHistory(<<>>, historyFile)
    /\ enteredAt = [i \in 1..Len(commandHistory) |-> 0]
    /\ prFiles = <<>>
    /\ inflight = <<>>
    /\ microtasks = <<>>
    /\ nLines = 0
    /\ nRuns = 1
    /\ nCalls = 0
    /\ parser = NewParser
    /\ gemini = NewGemini(undefined)
    /\ latestLoad = <<>>
    /\ ev = Event("new", "", NoCall, Failure)

SM_addToHistory(command) ==
    /\ UNCHANGED gemini
    /\ nCalls < MaxCalls
    /\ nCalls' = nCalls + 1
    /\ commandHistory' = addToHistory(commandHistory, command)
    /\ enteredAt' = Stamp(enteredAt, commandHistory, commandHistory', "",
                          command, nCalls + 1)
    /\ phase' = "running"
    /\ ev' = Event("addToHistory", command, NoCall, Failure)
    /\ UNCHANGED <<state, prFiles, inflight, sessionFile, historyFile, nLines,
                   nRuns, parser,
                   latestLoad, microtasks>>

\* phase "saved": the file holds what saveHistory wrote for this history.
SM_saveHistory ==
    /\ UNCHANGED gemini
    /\ phase = "running"
    /\ historyFile' = saveHistory(commandHistory)
    /\ phase' = "saved"
    /\ ev' = Event("saveHistory", "", NoCall, Failure)
    /\ UNCHANGED <<state, commandHistory, prFiles, inflight, sessionFile,
                   nLines, nRuns, nCalls, parser, enteredAt,
                   latestLoad, microtasks>>

\* resetSession: the state is the empty one again; neither file is
\* touched, and the history stays.
SM_resetSession ==
    /\ UNCHANGED gemini
    /\ state' = InitialState
    /\ ev' = Event("resetSession", "", NoCall, Failure)
    /\ UNCHANGED <<phase, commandHistory, prFiles, inflight, sessionFile,
                   historyFile, nLines, nRuns, nCalls, parser, enteredAt,
                   latestLoad, microtasks>>

\* The constructor: the empty state, then loadSession and loadHistory.
SM_new ==
    /\ UNCHANGED gemini
    /\ nRuns < MaxRuns
    /\ nRuns' = nRuns + 1
    /\ state' = loadSession(InitialState, sessionFile)
    /\ commandHistory' = loadHistory(<<>>, historyFile)
    /\ enteredAt' = [i \in 1..Len(commandHistory') |-> 0]
    /\ phase' = "running"
    /\ ev' = Event("new", "", NoCall, Failure)
    /\ UNCHANGED <<prFiles, inflight, sessionFile, historyFile, nLines,
                   nCalls, parser,
                   latestLoad, microtasks>>

NextSM ==
    \/ \E command \in HistoryCommands : SM_addToHistory(command)
    \/ SM_saveHistory
    \/ SM_resetSession
    \/ SM_new

SpecSM == InitSM /\ [][NextSM]_vars

(***************************************************************************)
(* CommandParser on its own: any sequence of register, registerAlias and   *)
(* execute on a new parser.  A handler is the caller's: once invoked it    *)
(* throws, or it returns and execute awaits what it returned, which is     *)
(* fulfilled or rejected later, after other calls on the parser.           *)
(***************************************************************************)
\* Names given to register and registerAlias, and the handlers registered.
ParserNames == {"a", "B", "+"}
ParserHandlers == {"H1", "H2"}
\* Lines given to execute.
ParserInputs == {"a", "A 1  2", " b x ", "+ 7", "- 7", "c", "", "   "}
\* The error a handler throws or rejects with; undefined for none.
Failures == {undefined, <<"E1">>, <<"E2">>}
\* The execute calls that wait for their handler at one time.
MaxPending == 1

InitCP ==
    /\ parser = NewParser
    /\ gemini = NewGemini(undefined)
    /\ latestLoad = <<>>
    /\ phase = "running"
    /\ state = InitialState
    /\ commandHistory = <<>>
    /\ enteredAt = <<>>
    /\ prFiles = <<>>
    /\ inflight = <<>>
    /\ microtasks = <<>>
    /\ sessionFile = <<>>
    /\ historyFile = <<>>
    /\ nLines = 0
    /\ nRuns = 1
    /\ nCalls = 0
    /\ ev = Event("new", "", NoCall, Failure)

CP_register(name, handler) ==
    /\ UNCHANGED gemini
    /\ parser' = register(parser, name, handler)
    /\ ev' = Event("register", name, NoCall, Failure)
    /\ UNCHANGED <<phase, state, commandHistory, prFiles, inflight, sessionFile,
                   historyFile, nLines, nRuns, nCalls, enteredAt,
                   latestLoad, microtasks>>

CP_registerAlias(alias, command) ==
    /\ UNCHANGED gemini
    /\ parser' = registerAlias(parser, alias, command)
    /\ ev' = Event("registerAlias", alias, NoCall, Failure)
    /\ UNCHANGED <<phase, state, commandHistory, prFiles, inflight, sessionFile,
                   historyFile, nLines, nRuns, nCalls, enteredAt,
                   latestLoad, microtasks>>

\* execute(input, context) up to its await, or to its end when it invokes
\* no handler or the handler throws (thrown is the error).  ev takes the
\* handlers invoked and how the call stands: result is what it has
\* returned and error what it has rejected with, both undefined while it
\* waits for the handler.  A call that waits is known by that handler.
CP_execute(input) ==
    /\ UNCHANGED gemini
    /\ LET invoke(r) ==
               \E thrown \in Failures :
                   LET awaits == r.calls # <<>> /\ thrown = undefined
                   IN  /\ r.calls = <<>> => thrown = undefined
                       /\ awaits => Len(inflight) < MaxPending
                       /\ inflight' =
                              IF awaits
                              THEN Append(inflight, [handler |-> r.call.handler,
                                                     result  |-> r.result])
                              ELSE inflight
                       /\ ev' = [calls   |-> r.calls,
                                 failure |-> thrown,
                                 result  |-> IF awaits \/ thrown # undefined
                                             THEN undefined ELSE <<r.result>>,
                                 error   |-> thrown]
                                @@ Event("execute", input, r.call, Failure)
       IN  invoke(execute(input))
    /\ UNCHANGED <<phase, state, commandHistory, prFiles, sessionFile,
                   historyFile, nLines, nRuns, nCalls, parser, enteredAt,
                   latestLoad, microtasks>>

\* What the handler of the i-th waiting execute returned is fulfilled, or
\* rejected with an error (rejection): execute returns or rejects.
CP_settle(i, rejection) ==
    /\ UNCHANGED gemini
    /\ i \in 1..Len(inflight)
    /\ LET call == inflight[i]
       IN  ev' = [calls   |-> <<>>,
                  handler |-> call.handler,
                  failure |-> rejection,
                  result  |-> IF rejection # undefined THEN undefined
                              ELSE <<call.result>>,
                  error   |-> rejection]
                 @@ Event("settled", "", NoCall, Failure)
    /\ inflight' = SubSeq(inflight, 1, i - 1) \o SubSeq(inflight, i + 1, Len(inflight))
    /\ UNCHANGED <<phase, state, commandHistory, prFiles, sessionFile,
                   historyFile, nLines, nRuns, nCalls, parser, enteredAt,
                   latestLoad, microtasks>>

NextCP ==
    \/ \E name \in ParserNames : \E handler \in ParserHandlers :
           CP_register(name, handler)
    \/ \E alias \in ParserNames : \E command \in ParserNames :
           CP_registerAlias(alias, command)
    \/ \E input \in ParserInputs : CP_execute(input)
    \/ \E i \in 1..Len(inflight) : \E rejection \in Failures : CP_settle(i, rejection)

SpecCP == InitCP /\ [][NextCP]_vars

(***************************************************************************)
(* GeminiClient on its own: any sequence of reply, converse and            *)
(* clearHistory calls on a new client, the requests settling in any order. *)
(***************************************************************************)
GeminiTexts == {"why", "fix?"}
GeminiInstructions == {undefined, <<"be brief">>}

GeminiResponses ==
    LET object(key, value) == JSONobject((key :> value))
        empty == JSONobject([key \in {} |-> JSONnull])
        part(text) == object("text", JSONstring(text))
        candidate(parts) == object("content", object("parts", JSONarray(parts)))
        ok(candidates) ==
            Http(TRUE, 200, Returns(""), Returns(object("candidates", candidates)))
        notJSON(text, char) ==
            Throws(Error("SyntaxError", "Unexpected token '" \o char \o "', \""
                                        \o text \o "\" is not valid JSON"))
        aborted == Error("AbortError", "This operation was aborted")
        terminated == Error("TypeError", "terminated")
    IN  {Rejects(aborted), Rejects(Error("TypeError", "fetch failed")),
         Rejects(NotAnError),
         Http(FALSE, 500, Returns("boom"), notJSON("boom", "b")),
         Http(FALSE, 502, Throws(terminated), Throws(terminated)),
         Http(TRUE, 200, Returns("<html>"), notJSON("<html>", "<")),
         Http(TRUE, 200, Throws(aborted), Throws(aborted)),
         Http(TRUE, 200, Returns("null"), Returns(JSONnull)),
         Http(TRUE, 200, Returns("{}"), Returns(empty)),
         ok(JSONnull),
         ok(JSONarray(<<>>)),
         ok(JSONarray(<<JSONnull>>)),
         ok(JSONarray(<<empty>>)),
         ok(JSONarray(<<object("content", JSONnull)>>)),
         ok(JSONarray(<<object("content", empty)>>)),
         ok(JSONarray(<<candidate(<<>>)>>)),
         ok(JSONarray(<<candidate(<<JSONnull>>)>>)),
         ok(JSONarray(<<candidate(<<empty>>)>>)),
         ok(JSONarray(<<candidate(<<object("text", JSONnull)>>)>>)),
         ok(JSONarray(<<candidate(<<part("")>>)>>)),
         ok(JSONarray(<<candidate(<<part("LGTM"), part("or not")>>),
                        candidate(<<part("second")>>)>>)),
         ok(JSONarray(<<empty, candidate(<<part("second")>>)>>))}

InitGC ==
    /\ gemini \in {NewGemini(systemInstruction) : systemInstruction \in GeminiInstructions}
    /\ parser = NewParser
    /\ latestLoad = <<>>
    /\ phase = "running"
    /\ state = InitialState
    /\ commandHistory = <<>>
    /\ enteredAt = <<>>
    /\ prFiles = <<>>
    /\ inflight = <<>>
    /\ microtasks = <<>>
    /\ sessionFile = <<>>
    /\ historyFile = <<>>
    /\ nLines = 0
    /\ nRuns = 1
    /\ nCalls = 0
    /\ ev = [kind |-> "new"]

\* The variables no GeminiClient method touches.
applicationVars ==
    <<phase, state, commandHistory, prFiles, inflight, sessionFile, historyFile,
      nLines, nRuns, parser, latestLoad, microtasks, enteredAt>>

\* reply keeping the exchange: the user message is pushed as converse does.
GC_reply_stateful(userText) ==
    /\ nCalls < MaxCalls
    /\ nCalls' = nCalls + 1
    /\ LET request == payload(gemini, replyMessages(gemini, userText))
       IN  /\ gemini' = [gemini EXCEPT
                            !.history = Append(@, Message("user", userText)),
                            !.pending = Append(@, [method |-> "reply",
                                                   text |-> userText])]
           /\ ev' = [kind |-> "reply", text |-> userText, request |-> request]
    /\ UNCHANGED applicationVars

\* reply up to its await: the request is sent, the history is not read.
GC_reply(userText) ==
    /\ nCalls < MaxCalls
    /\ nCalls' = nCalls + 1
    /\ LET request == payload(gemini, replyMessages(gemini, userText))
       IN  /\ gemini' = [gemini EXCEPT !.pending =
                            Append(@, [method |-> "reply", text |-> userText])]
           /\ ev' = [kind |-> "reply", text |-> userText, request |-> request]
    /\ UNCHANGED applicationVars

\* converse up to its await: the user message is pushed and the whole
\* history is sent.
GC_converse(userText) ==
    /\ nCalls < MaxCalls
    /\ nCalls' = nCalls + 1
    /\ LET history == Append(gemini.history, Message("user", userText))
       IN  /\ gemini' = [gemini EXCEPT !.history = history,
                                        !.pending = Append(@, [method |-> "converse",
                                                               text |-> userText])]
           /\ ev' = [kind |-> "converse", text |-> userText,
                     request |-> payload(gemini, history)]
    /\ UNCHANGED applicationVars

\* The request of the i-th waiting call settles and the call runs to its
\* end: converse pushes the model message when sendRequest has returned.
GC_settle(i, response) ==
    /\ i \in 1..Len(gemini.pending)
    /\ LET call    == gemini.pending[i]
           outcome == sendRequest(response)
       IN  /\ gemini' = [gemini EXCEPT
                  !.history = IF call.method = "converse" /\ ~outcome.threw
                              THEN Append(@, Message("model", outcome.value))
                              ELSE @,
                  !.pending = SubSeq(@, 1, i - 1) \o SubSeq(@, i + 1, Len(@))]
           /\ ev' = [kind |-> "settled", method |-> call.method, text |-> call.text,
                     response |-> response, outcome |-> outcome]
    /\ UNCHANGED <<applicationVars, nCalls>>

GC_clearHistory ==
    /\ gemini.history # <<>>
    /\ gemini' = [gemini EXCEPT !.history = <<>>]
    /\ ev' = [kind |-> "clearHistory"]
    /\ UNCHANGED <<applicationVars, nCalls>>

NextGC ==
    \/ \E userText \in GeminiTexts : GC_reply(userText)
    \/ \E userText \in GeminiTexts : GC_converse(userText)
    \/ \E i \in 1..Len(gemini.pending) : \E response \in GeminiResponses :
           GC_settle(i, response)
    \/ GC_clearHistory

SpecGC == InitGC /\ [][NextGC]_vars

\* converse called when no call is waiting: each call completes before the
\* next starts.
GC_converseNext(userText) ==
    /\ gemini.pending = <<>>
    /\ GC_converse(userText)

NextGCSeq ==
    \/ \E userText \in GeminiTexts : GC_converseNext(userText)
    \/ \E i \in 1..Len(gemini.pending) : \E response \in GeminiResponses :
           GC_settle(i, response)

SpecGCSeq == InitGC /\ [][NextGCSeq]_vars

(***************************************************************************)
(* Properties.                                                             *)
(***************************************************************************)
IsSuffix(a, b) == Len(a) <= Len(b) /\ a = LastN(b, Len(a))

NonBlankLines(content) == SelectSeq(splitLines(content), LAMBDA l : trim(l) # "")

NoLineFeed(history) ==
    \A i \in 1..Len(history) : \A k \in 1..Len(history[i]) :
        CharAt(history[i], k) # "\n"

\* C1: the command history never holds more than maxHistorySize entries;
\* addToHistory of a non-blank command on a full history drops the oldest
\* entry, keeps the others in order and puts the command last; a new
\* SessionManager holds the last (at most maxHistorySize) non-blank lines of
\* the history file.
C1_HistoryBounded ==
    /\ [](Len(commandHistory) <= maxHistorySize)
    /\ [][ev'.kind = "addToHistory" /\ trim(ev'.line) # ""
          /\ Len(commandHistory) = maxHistorySize
          => commandHistory' = Tail(commandHistory) \o <<ev'.line>>]_vars
    /\ [][ev'.kind = "new" /\ historyFile # <<>>
          => /\ IsSuffix(commandHistory', NonBlankLines(historyFile[1]))
             /\ Len(commandHistory') =
                    Min(maxHistorySize, Len(NonBlankLines(historyFile[1])))]_vars

\* A command has just been added to a history that was full.
C1_Witness ==
    /\ ev.kind = "addToHistory"
    /\ trim(ev.line) # ""
    /\ ev.had = maxHistorySize
    /\ commandHistory[Len(commandHistory)] = ev.line

\* C2: the recorded lines are in the history in the order they were
\* entered at the prompt.
C2_HistoryInEntryOrder ==
    \A i, j \in 1..Len(enteredAt) : i < j => enteredAt[i] <= enteredAt[j]

\* The text of !n.
BackReference(n) == "!" \o CharAt("0123456789", n + 1)

\* C3: !! on a non-empty history, and !n with 1 <= n <= Len(history), make
\* the handler call that typing the last, respectively the n-th, history
\* entry makes.
C3_BackReferenceDispatch ==
    [][ev'.kind = "line" =>
        LET t        == trim(ev'.line)
            typed(l) == processLine(l, state, commandHistory, prFiles).call
        IN  /\ t = "!!" /\ Len(commandHistory) > 0
               => ev'.call = typed(commandHistory[Len(commandHistory)])
            /\ \A n \in 1..Len(commandHistory) :
                  t = BackReference(n) => ev'.call = typed(commandHistory[n])]_vars

\* !1 has just run the first of two history entries, a comment command.
C3_Witness ==
    /\ ev.kind = "line"
    /\ ev.line = "!1"
    /\ ev.had = 2
    /\ ev.call.called
    /\ ev.call.cmd = "ca"

\* The trimmed line t is a back-reference that names no entry of history h.
NamesNoEntry(t, h) ==
    \/ t = "!!" /\ Len(h) = 0
    \/ /\ historyMatch(t) # <<>>
       /\ LET n == parseInt(historyMatch(t)[1])[1] IN n = 0 \/ n > Len(h)

\* C4: a back-reference that names no history entry calls no handler and
\* changes neither the session state (selected PR, selected file, comments),
\* nor the file list, nor the history; nothing waits because of it, neither
\* for GitHub nor to record the line.
C4_DanglingBackReference ==
    [][ev'.kind = "line" /\ NamesNoEntry(trim(ev'.line), commandHistory)
       => /\ ~ev'.call.called
          /\ state' = state
          /\ prFiles' = prFiles
          /\ commandHistory' = commandHistory
          /\ inflight' = inflight
          /\ microtasks' = microtasks
          /\ phase' = phase]_vars

\* !2 has just been entered with one entry in the history and a comment in
\* the session.
C4_Witness ==
    /\ ev.kind = "line"
    /\ ev.line = "!2"
    /\ ev.had = 1
    /\ state.comments.global # <<>>

\* C5: the session state a new start restores is the state at quit: the
\* same PR number, file index, file name and comment lists.
C5_SessionRoundTrip ==
    [][phase = "exited" /\ phase' = "running"
       => /\ state'.prNumber = state.prNumber
          /\ state'.currentFileIndex = state.currentFileIndex
          /\ state'.currentFileName = state.currentFileName
          /\ state'.comments.global = state.comments.global
          /\ state'.comments.files = state.comments.files]_vars

\* The application has just been started again on a session with a PR, a
\* file and comments of both kinds.
C5_Witness ==
    /\ ev.kind = "start"
    /\ nRuns = 2
    /\ state.prNumber = <<1>>
    /\ state.currentFileName = <<"a.ts">>
    /\ state.comments.global # <<>>
    /\ DOMAIN state.comments.files # {}

\* C6, as claimed: saveHistory followed by a new SessionManager yields the
\* saved history, for every history addToHistory produces.
C6_HistoryRoundTripAny ==
    [][phase = "saved" /\ ev'.kind = "new"
       => commandHistory' = commandHistory]_vars

\* C6, amended: saveHistory followed by a new SessionManager yields the
\* saved history when no entry contains a line feed.
C6_HistoryRoundTrip ==
    [][phase = "saved" /\ ev'.kind = "new" /\ NoLineFeed(commandHistory)
       => commandHistory' = commandHistory]_vars

\* A new SessionManager has just read back a full history whose last entry
\* addToHistory was given with surrounding blanks.
C6_Witness ==
    /\ ev.kind = "new"
    /\ nRuns = 2
    /\ Len(commandHistory) = maxHistorySize
    /\ commandHistory[Len(commandHistory)] = "  pr 1 "
    /\ historyFile = saveHistory(commandHistory)

\* The comment text of the argument string of ca: what follows the position
\* and the white space after it.
TextAfterPosition(args) ==
    trimStart(SubSeq(args, Len(splitWs(args)[1]) + 1, Len(args)))

\* C7: ca <pos> <text> with a file selected and a numeric position appends
\* one comment to the current file's list: path the current file name,
\* position <pos>, status local, body the whole text after the position.
C7_WholeTextStored ==
    [][/\ ev'.kind = "line" /\ ev'.call.called /\ ev'.call.cmd = "ca"
       /\ state.currentFileName # undefined
       /\ AllDigits(splitWs(ev'.call.args)[1])
       /\ TextAfterPosition(ev'.call.args) # ""
       => LET name == state.currentFileName[1]
              old  == IF name \in DOMAIN state.comments.files
                      THEN state.comments.files[name] ELSE <<>>
          IN  /\ name \in DOMAIN state'.comments.files
              /\ state'.comments.files[name] =
                    Append(old, [body     |-> TextAfterPosition(ev'.call.args),
                                 path     |-> name,
                                 position |-> parseInt(splitWs(ev'.call.args)[1])[1],
                                 status   |-> "local"])]_vars

\* C8: every file name with line-scoped comments is a file name of the
\* current PR's file list.
C8_CommentedFilesInPR ==
    \A f \in DOMAIN state.comments.files :
        state.comments.files[f] # <<>> => \E i \in 1..Len(prFiles) : prFiles[i] = f

\* C9: ca g <text> (or ca G <text>) appends one comment to comments.global,
\* with status local and neither path nor position, and leaves the per-file
\* lists as they are, whether or not a PR or a file is selected.
C9_GlobalComment ==
    [][/\ ev'.kind = "line" /\ ev'.call.called /\ ev'.call.cmd = "ca"
       /\ toLowerCase(splitWs(ev'.call.args)[1]) = "g"
       /\ TextAfterPosition(ev'.call.args) # ""
       => /\ Len(state'.comments.global) = Len(state.comments.global) + 1
          /\ SubSeq(state'.comments.global, 1, Len(state.comments.global))
                 = state.comments.global
          /\ LET c == state'.comments.global[Len(state'.comments.global)]
             IN  DOMAIN c = {"body", "status"} /\ c.status = "local"
          /\ state'.comments.files = state.comments.files]_vars

\* ca G has just added a global comment with no PR selected.
C9_Witness ==
    /\ ev.kind = "line"
    /\ ev.line = "ca G ok"
    /\ state.prNumber = undefined
    /\ state.currentFileName = undefined
    /\ state.comments.global # <<>>

\* C10: when pr <n> loads, the selected PR is n and the file list is the
\* listing GitHub returned; the first file is selected when there is one,
\* and no file is selected when the listing is empty.
C10_SelectPR ==
    [][ev'.kind = "response" /\ ev'.call.cmd = "pr" /\ ev'.response.ok
       => LET files == ev'.response.files
          IN  /\ state'.prNumber = parseInt(ev'.call.args)
              /\ prFiles' = files
              /\ files # <<>> => /\ state'.currentFileIndex = <<1>>
                                 /\ state'.currentFileName = <<files[1]>>
              /\ files = <<>> => /\ state'.currentFileIndex = undefined
                                 /\ state'.currentFileName = undefined]_vars

\* PR 2 has just loaded with a listing of one file, which is now selected.
C10_Witness ==
    /\ ev.kind = "response"
    /\ ev.call.cmd = "pr"
    /\ ev.response.ok
    /\ ev.response.files = <<"c.ts">>
    /\ state.prNumber = <<2>>
    /\ state.currentFileName = <<"c.ts">>

\* The first word of an entered line, and the text after it.
FirstWord(line) == splitWs(trim(line))[1]
ArgText(line) == join(Tail(splitWs(trim(line))), " ")

\* File i of the current list is the selected file.
Selected(i) ==
    /\ i \in 1..Len(prFiles)
    /\ state.currentFileIndex = <<i>>
    /\ state.currentFileName = <<prFiles[i]>>

SelectionUnchanged ==
    /\ state'.currentFileIndex = state.currentFileIndex
    /\ state'.currentFileName = state.currentFileName

\* C11: with file i of N selected, a line whose first word is + selects
\* file i+1 when i < N and a line whose first word is - selects file i-1
\* when i > 1; + at the last file and - at the first leave index and name
\* as they were; the text after + or - makes no difference.
C11_StepByOne ==
    [][ev'.kind = "line" /\ trim(ev'.line) # "" /\ FirstWord(ev'.line) \in {"+", "-"}
       => \A i \in 1..Len(prFiles) :
            Selected(i)
            => LET j == IF FirstWord(ev'.line) = "+" THEN i + 1 ELSE i - 1
               IN  IF j \in 1..Len(prFiles)
                   THEN /\ state'.currentFileIndex = <<j>>
                        /\ state'.currentFileName = <<prFiles[j]>>
                   ELSE SelectionUnchanged]_vars

\* "+ 1" has just moved the selection from the first file of two to the
\* second.
C11_Witness ==
    /\ ev.kind = "line"
    /\ ev.line = "+ 1"
    /\ Len(prFiles) = 2
    /\ Selected(2)

\* C12: fn <k> with a PR selected and k an integer in 1..N selects file k:
\* index k and name prFiles[k-1]; with k outside 1..N, an argument that is
\* not a number, or no PR selected, index and name stay as they were.
C12_SelectByIndex ==
    [][ev'.kind = "line" /\ trim(ev'.line) # "" /\ FirstWord(ev'.line) = "fn"
       => LET arg == ArgText(ev'.line)
              k   == DigitsValue(arg, 1, 0)
          IN  IF state.prNumber # undefined /\ AllDigits(arg) /\ k \in 1..Len(prFiles)
              THEN /\ state'.currentFileIndex = <<k>>
                   /\ state'.currentFileName = <<prFiles[k]>>
              ELSE SelectionUnchanged]_vars

\* C13: f <regex> with a PR selected selects the lowest-indexed file whose
\* name matches the pattern, letter case ignored; with no match, an empty
\* or invalid pattern, or no PR selected, index and name stay as they were.
C13_SelectByName ==
    [][ev'.kind = "line" /\ trim(ev'.line) # "" /\ FirstWord(ev'.line) = "f"
       => LET pattern == ArgText(ev'.line)
              matches == {i \in 1..Len(prFiles) : regexTest(pattern, prFiles[i])}
          IN  IF /\ state.prNumber # undefined
                 /\ pattern # ""
                 /\ ~RegExpThrows(pattern)
                 /\ matches # {}
              THEN \E i \in matches :
                     /\ \A j \in matches : i <= j
                     /\ state'.currentFileIndex = <<i>>
                     /\ state'.currentFileName = <<prFiles[i]>>
              ELSE SelectionUnchanged]_vars

\* "f \.TS$" was entered after pr 1 and +, which had selected the second
\* of two matching files, and the first is selected now.
C13_Witness ==
    /\ ev.kind = "line"
    /\ ev.line = "f \\.TS$"
    /\ prFiles = <<"a.ts", "b.ts">>
    /\ Selected(1)
    /\ commandHistory = <<"pr 1", "+">>

\* s has sub as a substring.
Contains(s, sub) ==
    \E i \in 1..(Len(s) - Len(sub) + 1) : SubSeq(s, i, i + Len(sub) - 1) = sub

\* C14: while a PR and a file are selected, the prompt shows the number of
\* that PR, the index of the selected file together with the number of
\* files GitHub lists for that PR, and the name of the selected file, which
\* is the file the list has at that index; also after a restart.
C14_PromptShowsSelection ==
    (/\ phase = "running" /\ microtasks = <<>>
     /\ ~FalsyNum(state.prNumber) /\ ~FalsyStr(state.currentFileName))
    => \E files \in Listings(state.prNumber[1]) : \E i \in 1..Len(files) :
          /\ state.currentFileIndex = <<i>>
          /\ state.currentFileName = <<files[i]>>
          /\ Contains(displayedPrompt, "ghr #" \o String(state.prNumber[1]) \o " [")
          /\ Contains(displayedPrompt,
                      " [" \o String(i) \o "/" \o String(Len(files)) \o " | ")
          /\ Contains(displayedPrompt, "%] " \o files[i] \o " > ")

\* The name a line is dispatched under: its first word in lower case,
\* replaced by the command it is an alias of when it is an alias.
DispatchName(line) ==
    LET first == toLowerCase(FirstWord(line))
    IN  IF first \in DOMAIN parser.aliases THEN parser.aliases[first] ELSE first

\* C15: execute on a line that is not blank invokes one handler, once: the
\* handler registered under the lower-cased first word after one step of
\* alias resolution, and returns true; when no handler is registered under
\* that name it invokes none and returns false; on a blank line it invokes
\* none and returns true.
C15_DispatchReturnsTrue ==
    [][/\ ev'.kind = "execute"
          => IF trim(ev'.line) = ""
             THEN ev'.calls = <<>> /\ ev'.result = <<TRUE>>
             ELSE IF DispatchName(ev'.line) \in DOMAIN parser.commands
             THEN /\ Len(ev'.calls) = 1
                  /\ ev'.calls[1].handler = parser.commands[DispatchName(ev'.line)]
                  /\ ev'.error = undefined
             ELSE ev'.calls = <<>> /\ ev'.result = <<FALSE>>
       /\ ev'.kind = "settled" => ev'.result = <<TRUE>>]_vars

\* C15, amended: execute on a line that is not blank invokes one handler,
\* once: the handler registered under the lower-cased first word after one
\* step of alias resolution.  When the handler throws, execute rejects with
\* the error thrown; otherwise it waits for what the handler returned,
\* returns true when that is fulfilled and rejects with its error when it
\* is rejected.  When no handler is registered under that name execute
\* invokes none and returns false; on a blank line it invokes none and
\* returns true.
C15_Dispatch ==
    [][/\ ev'.kind = "execute"
          => IF trim(ev'.line) = ""
             THEN ev'.calls = <<>> /\ ev'.result = <<TRUE>>
             ELSE IF DispatchName(ev'.line) \in DOMAIN parser.commands
             THEN /\ Len(ev'.calls) = 1
                  /\ ev'.calls[1].handler = parser.commands[DispatchName(ev'.line)]
                  /\ ev'.result = undefined
                  /\ ev'.error = ev'.failure
             ELSE ev'.calls = <<>> /\ ev'.result = <<FALSE>>
       /\ ev'.kind = "settled"
          => /\ ev'.calls = <<>>
             /\ IF ev'.failure = undefined
                THEN ev'.result = <<TRUE>> /\ ev'.error = undefined
                ELSE ev'.result = undefined /\ ev'.error = ev'.failure]_vars

\* "A 1  2" was executed with A an alias of b and b an alias of +, all
\* three names registered: the handler registered under b was invoked with
\* the arguments "1 2" and threw E2, and execute rejected with E2.
C15_Witness ==
    /\ ev.kind = "execute"
    /\ ev.line = "A 1  2"
    /\ DOMAIN parser.aliases = {"a", "b"}
    /\ parser.aliases["a"] = "b"
    /\ parser.aliases["b"] = "+"
    /\ parser.commands = [n \in {"a", "b", "+"} |-> IF n = "b" THEN "H2" ELSE "H1"]
    /\ ev.calls = <<[called |-> TRUE, cmd |-> "b", handler |-> "H2", args |-> "1 2"]>>
    /\ ev.failure = <<"E2">>
    /\ ev.result = undefined
    /\ ev.error = <<"E2">>

\* C16: the step taken on q, on quit and at the end of the input leaves
\* the process exited with the session file holding the session state and
\* the history file holding the command history, whatever the number of
\* unpushed comments.
C16_QuitSaves ==
    [][(\/ ev'.kind = "close"
        \/ /\ ev'.kind = "line"
           /\ trim(ev'.line) # ""
           /\ FirstWord(ev'.line) \in {"q", "quit"})
       => /\ phase' = "exited"
          /\ sessionFile' = <<JSONstringify(state)>>
          /\ loadSession(InitialState, sessionFile') = state
          /\ historyFile' = <<join(commandHistory, "\n") \o "\n">>
          /\ loadHistory(<<>>, historyFile') = commandHistory]_vars

\* quit was entered with a PR selected and one unpushed comment; the
\* process has exited and both files hold what the session had.
C16_Witness ==
    /\ phase = "exited"
    /\ ev.kind = "line"
    /\ ev.line = "quit"
    /\ state.prNumber = <<1>>
    /\ getUnpushedCommentCount(state) = 1
    /\ commandHistory # <<>>
    /\ sessionFile = <<JSONstringify(state)>>
    /\ historyFile = <<join(commandHistory, "\n") \o "\n">>

\* The parts of the session that pr <arg> sets when it succeeds.
PRSelection ==
    <<state.prNumber, state.currentFileIndex, state.currentFileName, prFiles,
      state.comments>>

\* C18: when pr <arg> fails, because the argument is not a number or
\* because the listing throws, the PR number, the file index and name, the
\* file list and the comments are what they were before the command.
C18_FailedPRKeepsSession ==
    [][(\/ /\ ev'.kind = "response"
           /\ ev'.call.cmd = "pr"
           /\ ~ev'.response.ok
        \/ /\ ev'.kind = "line"
           /\ trim(ev'.line) # ""
           /\ FirstWord(ev'.line) = "pr"
           /\ isNaN(parseInt(ArgText(ev'.line))))
       => PRSelection' = PRSelection]_vars

\* The listing for pr 1 has just failed while PR 1 was selected with its
\* second file.
C18_Witness ==
    /\ ev.kind = "response"
    /\ ev.call.cmd = "pr"
    /\ ~ev.response.ok
    /\ state.prNumber = <<1>>
    /\ state.currentFileIndex = <<2>>
    /\ state.currentFileName = <<"b.ts">>
    /\ prFiles = <<"a.ts", "b.ts">>

\* C17: every command the migration guide lists as implemented is
\* registered with the dispatcher: a line that starts with one has been
\* dispatched to a handler, the one registered under that name.
C17_GuideCommandsRegistered ==
    (ev.kind = "line" /\ trim(ev.line) # "" /\ FirstWord(ev.line) \in GuideImplemented)
    => /\ FirstWord(ev.line) \in DOMAIN parser.commands
       /\ ev.call.called
       /\ ev.call.cmd = FirstWord(ev.line)

\* A line that runs the history listing, in any letter case, or is a
\* history back-reference !! or !n.
HistoryLookupLine(line) ==
    \/ toLowerCase(trim(line)) \in {"h", "history"}
    \/ trim(line) = "!!"
    \/ historyMatch(trim(line)) # <<>>

\* The number of history entries that are the text t.
Count(history, t) == Cardinality({i \in 1..Len(history) : history[i] = t})

\* C19: a line that runs the history listing (h or history, in any letter
\* case the dispatcher accepts) or is a back-reference (!!, !n) never gains
\* a history entry: when processLine goes on after the handler, no entry
\* with the text of such a line is added.
C19_LookupsNotRecorded ==
    [][\A k \in 1..Len(microtasks) :
          HistoryLookupLine(microtasks[k].trimmed)
          => Count(commandHistory', microtasks[k].trimmed)
               <= Count(commandHistory, microtasks[k].trimmed)]_vars

\* The history after one more line, within its size bound.
Recorded(history, entry) ==
    LET all == Append(history, entry)
    IN  IF Len(all) > maxHistorySize THEN Tail(all) ELSE all

\* A line that is not blank, not a history lookup and not a quit command.
OrdinaryLine(line) ==
    /\ trim(line) # ""
    /\ ~HistoryLookupLine(line)
    /\ toLowerCase(FirstWord(line)) \notin {"q", "quit"}

\* The history after the lines of a sequence have been recorded in order.
RECURSIVE RecordedAll(_, _)
RecordedAll(history, entries) ==
    IF entries = <<>> THEN history
    ELSE RecordedAll(Recorded(history, Head(entries)), Tail(entries))

\* The lines of the handlers in the microtask queue, taken in the order
\* the bijection gives.
TypedInOrder(order) == [k \in 1..Len(microtasks) |-> microtasks[order[k]].trimmed]

\* C20: an entered line that is not blank, not a history lookup and not a
\* quit command is appended to the history once, when its handler has
\* completed and not before, also when its first word names no registered
\* command: when the pending handlers complete, the history gains each of
\* their lines once, in some order.
C20_LinesRecordedOnce ==
    [][/\ ev'.kind \in {"line", "response"} => commandHistory' = commandHistory
       /\ (/\ ev'.kind = "microtasks"
           /\ \A k \in 1..Len(microtasks) : OrdinaryLine(microtasks[k].trimmed))
          => \E order \in [1..Len(microtasks) -> 1..Len(microtasks)] :
                /\ \A i, j \in 1..Len(microtasks) : order[i] = order[j] => i = j
                /\ commandHistory' = RecordedAll(commandHistory, TypedInOrder(order))]_vars

\* The position word of the argument text of ca ("" when there is none).
PositionWord(args) == IF args = "" THEN "" ELSE splitWs(args)[1]

\* The failure paths of ca: no argument, no comment text after the
\* position, a position other than g with no file selected, a position
\* other than g that is not a number.
FailingComment(args) ==
    \/ args = ""
    \/ TextAfterPosition(args) = ""
    \/ /\ toLowerCase(PositionWord(args)) # "g"
       /\ \/ state.currentFileName = undefined
          \/ isNaN(parseInt(PositionWord(args)))

\* C21: ca on one of its failure paths adds no comment, global or per
\* file, and leaves the rest of the session state as it was.
C21_FailedCommentAddsNothing ==
    [][(/\ ev'.kind = "line"
        /\ trim(ev'.line) # ""
        /\ FirstWord(ev'.line) = "ca"
        /\ FailingComment(ArgText(ev'.line)))
       => state' = state /\ prFiles' = prFiles]_vars

\* "ca x fix it" was entered with a file selected and a comment stored:
\* the position is not a number and the comments are the one stored before.
C21_Witness ==
    /\ ev.kind = "line"
    /\ ev.line = "ca x fix it"
    /\ state.currentFileName = <<"a.ts">>
    /\ Len(state.comments.global) = 1
    /\ DOMAIN state.comments.files = {}
    /\ commandHistory = <<"pr 1", "ca g ok">>

\* C22: while the application runs, the file index is set exactly when the
\* file name is set, and when they are set the index is within the file
\* list and the name is the entry of the list at that index; also right
\* after a start that restores a session from disk.
C22_SelectionInFileList ==
    phase = "running"
    => /\ state.currentFileIndex = undefined <=> state.currentFileName = undefined
       /\ state.currentFileIndex # undefined
          => /\ state.currentFileIndex[1] \in 1..Len(prFiles)
             /\ state.currentFileName = <<prFiles[state.currentFileIndex[1]]>>

\* A handler of a pr line is waiting for GitHub.
LoadPending == \E i \in 1..Len(inflight) : inflight[i].call.cmd = "pr"

\* C23: once every pr handler has completed, the selected PR and the file
\* list are those of the pr line entered last among the lines whose load
\* succeeded, whatever the order in which GitHub answered.
C23_LastEnteredPRWins ==
    (phase = "running" /\ latestLoad # <<>> /\ ~LoadPending)
    => /\ state.prNumber = latestLoad[1].prNumber
       /\ prFiles = latestLoad[1].files

\* The sequence short is the beginning of the sequence long.
IsPrefix(short, long) ==
    Len(short) <= Len(long) /\ SubSeq(long, 1, Len(short)) = short

\* C24: in every step each comment list, the global one and the list of
\* each file, keeps the comments it had, unaltered and in place, and can
\* only gain comments at its end; a step that selects a PR or a file leaves
\* all comment lists as they were.
C24_CommentsOnlyAppended ==
    [][/\ IsPrefix(state.comments.global, state'.comments.global)
       /\ \A f \in DOMAIN state.comments.files :
             /\ f \in DOMAIN state'.comments.files
             /\ IsPrefix(state.comments.files[f], state'.comments.files[f])
       /\ (\/ ev'.kind = "response"
           \/ /\ ev'.kind = "line"
              /\ trim(ev'.line) # ""
              /\ FirstWord(ev'.line) \in {"pr", "+", "-", "fn", "f"})
          => state'.comments = state.comments]_vars

\* PR 2 has just been loaded while a.ts of PR 1 carries a comment, which
\* is still stored.
C24_Witness ==
    /\ ev.kind = "response"
    /\ ev.response.ok
    /\ state.prNumber = <<2>>
    /\ DOMAIN state.comments.files = {"a.ts"}
    /\ Len(state.comments.files["a.ts"]) = 1
    /\ state.comments.files["a.ts"][1].status = "local"

\* C25: the step of a viewing or listing command (lf, dd, ddiw, do, dn, rs,
\* h, ?, lpr, ajim), when it returns at once and when its request is
\* answered or fails, leaves the selected PR, the file index and name, the
\* file list and the comment lists as they were.
C25_ViewingIsReadOnly ==
    [][(/\ ev'.kind \in {"line", "response"}
        /\ trim(ev'.line) # ""
        /\ FirstWord(ev'.line) \in ViewCommands)
       => PRSelection' = PRSelection]_vars

\* dd was entered with PR 1 and its first file selected and a global
\* comment stored; all of that is still there.
C25_Witness ==
    /\ ev.kind = "line"
    /\ ev.line = "dd"
    /\ state.prNumber = <<1>>
    /\ state.currentFileName = <<"a.ts">>
    /\ prFiles = <<"a.ts", "b.ts">>
    /\ Len(state.comments.global) = 1

\* C26: reply leaves the conversation history as it is, when it is called
\* and when its request settles; a converse call appends the user message
\* when it is called and, when it succeeds, the model message with the text
\* it returns: two messages, the user's first.  A converse call that fails
\* appends nothing more.
C26_ReplyStatelessConverseStateful ==
    [][/\ ev'.kind = "reply" => gemini'.history = gemini.history
       /\ (ev'.kind = "settled" /\ ev'.method = "reply")
          => gemini'.history = gemini.history
       /\ ev'.kind = "converse"
          => gemini'.history = Append(gemini.history, Message("user", ev'.text))
       /\ (ev'.kind = "settled" /\ ev'.method = "converse")
          => IF ev'.outcome.threw THEN gemini'.history = gemini.history
             ELSE gemini'.history =
                      Append(gemini.history, Message("model", ev'.outcome.value))]_vars

\* A converse call has succeeded after a reply was made: the history is
\* the user message and the model message of the converse call.
C26_Witness ==
    /\ ev.kind = "settled"
    /\ ev.method = "converse"
    /\ ~ev.outcome.threw
    /\ nCalls = 2
    /\ gemini.pending = <<[method |-> "reply", text |-> "fix?"]>>
    /\ gemini.history = <<Message("user", "why"), Message("model", "LGTM")>>

\* The roles of the messages are user, model, user, model, ...
Alternates(history) ==
    \A i \in 1..Len(history) :
        history[i].role = IF i % 2 = 1 THEN "user" ELSE "model"

\* C27: when converse calls are made one after the other, each completing
\* before the next starts, the history between calls alternates user,
\* model, user, model, ... starting with a user message.
C27_HistoryAlternates ==
    gemini.pending = <<>> => Alternates(gemini.history)

\* The body has at least one candidate with at least one part.
SomeCandidateHasPart(response) ==
    /\ response.kind = "http"
    /\ response.ok
    /\ ~response.json.threw
    /\ LET candidates == Member(response.json.value, "candidates")
       IN  /\ candidates.type = "array"
           /\ \E c \in 1..Len(candidates.items) :
                  HasItems(Member(Member(candidates.items[c], "content"), "parts"))

\* C28: sendRequest returns the text of the first part of the first
\* candidate ('No response text' when that text is empty or missing) when
\* the response is HTTP-ok and has at least one candidate with at least one
\* part; in every other case it throws: 'Request timed out' on abort, the
\* HTTP status error when the response is not ok, and 'No valid response
\* from Gemini API' for a body that was read.
C28_ResponseShapeValidated ==
    [][ev'.kind = "settled"
       => LET response == ev'.response
              outcome  == ev'.outcome
              \* the parts of the first candidate
              parts(data) ==
                  Member(Member(Member(data, "candidates").items[1], "content"),
                         "parts")
              text(part) == Member(part, "text")
          IN  IF SomeCandidateHasPart(response)
              THEN /\ ~outcome.threw
                   /\ HasItems(parts(response.json.value))
                   /\ outcome.value =
                          IF Truthy(text(parts(response.json.value).items[1]))
                          THEN text(parts(response.json.value).items[1]).string
                          ELSE "No response text"
              ELSE /\ outcome.threw
                   /\ (response.kind = "rejected" /\ response.reason.name = "AbortError")
                      => outcome.error.message = "Request timed out"
                   /\ (response.kind = "http" /\ ~response.ok /\ ~response.text.threw)
                      => outcome.error.message =
                             "HTTP " \o String(response.status) \o ": "
                             \o response.text.value
                   /\ (response.kind = "http" /\ response.ok /\ ~response.json.threw)
                      => outcome.error.message =
                             "No valid response from Gemini API"]_vars

====
